---------------------------- MODULE Spec2Model ----------------------------
(***************************************************************************)
(* A model of the CMS localization pipeline (class CMSLocalization):       *)
(* the extractor, the sanitizer, the identifier generator, the FTL         *)
(* serializer and its parser, and the GitHub pull-request reconciler.      *)
(*                                                                         *)
(* Strings are sequences of characters.  A character is a one-character    *)
(* TLA+ string; a character outside printable ASCII is written "U+XXXX".   *)
(* JSON values are records [t, s, kv, items]: t is the JavaScript type     *)
(* tag, s the characters of a string, kv the ordered key/value entries of  *)
(* an object, items the elements of an array.                              *)
(***************************************************************************)
EXTENDS Integers, Sequences, FiniteSets, TLC

(***************************************************************************)
(* Characters and strings                                                  *)
(***************************************************************************)

Digit == {"0", "1", "2", "3", "4", "5", "6", "7", "8", "9"}

LowerCase ==
  {"a", "b", "c", "d", "e", "f", "g", "h", "i", "j", "k", "l", "m",
   "n", "o", "p", "q", "r", "s", "t", "u", "v", "w", "x", "y", "z"}

UpperCase ==
  {"A", "B", "C", "D", "E", "F", "G", "H", "I", "J", "K", "L", "M",
   "N", "O", "P", "Q", "R", "S", "T", "U", "V", "W", "X", "Y", "Z"}

\* String.prototype.trim and the regular expression class \s: the
\* ECMAScript WhiteSpace and LineTerminator characters.
WhiteSpace ==
  {" ", "\t", "\n", "\r", "U+000B", "U+000C", "U+00A0", "U+FEFF",
   "U+2028", "U+2029"}

StartsWith(s, p) == Len(p) <= Len(s) /\ SubSeq(s, 1, Len(p)) = p

Includes(s, p) ==
  \E i \in 1..(Len(s) - Len(p) + 1) : SubSeq(s, i, i + Len(p) - 1) = p

RECURSIVE TrimStart(_)
TrimStart(s) ==
  IF s # <<>> /\ Head(s) \in WhiteSpace THEN TrimStart(Tail(s)) ELSE s

RECURSIVE TrimEnd(_)
TrimEnd(s) ==
  IF s # <<>> /\ s[Len(s)] \in WhiteSpace
  THEN TrimEnd(SubSeq(s, 1, Len(s) - 1))
  ELSE s

Trim(s) == TrimEnd(TrimStart(s))

\* String.prototype.split(sep) for a one-character separator: "" splits
\* to [""], and a trailing separator yields a trailing "".
RECURSIVE Split(_, _)
Split(s, sep) ==
  IF \A i \in 1..Len(s) : s[i] # sep THEN <<s>>
  ELSE LET i == CHOOSE j \in 1..Len(s) :
                  s[j] = sep /\ \A k \in 1..(j - 1) : s[k] # sep
       IN <<SubSeq(s, 1, i - 1)>> \o Split(SubSeq(s, i + 1, Len(s)), sep)

\* Array.prototype.join(sep).
RECURSIVE Join(_, _)
Join(parts, sep) ==
  IF parts = <<>> THEN <<>>
  ELSE IF Len(parts) = 1 THEN parts[1]
  ELSE parts[1] \o sep \o Join(Tail(parts), sep)

\* s.replace(/c/g, d) for single characters c and d.
ReplaceChar(s, c, d) == [i \in 1..Len(s) |-> IF s[i] = c THEN d ELSE s[i]]

\* Array.prototype.slice(1, -1).
SliceMiddle(parts) == SubSeq(parts, 2, Len(parts) - 1)

(***************************************************************************)
(* JSON values                                                             *)
(***************************************************************************)

Str(s) == [t |-> "string", s |-> s, kv |-> <<>>, items |-> <<>>]
Null == [t |-> "null", s |-> <<>>, kv |-> <<>>, items |-> <<>>]
Undefined == [t |-> "undefined", s |-> <<>>, kv |-> <<>>, items |-> <<>>]
Num == [t |-> "number", s |-> <<>>, kv |-> <<>>, items |-> <<>>]
Arr(items) == [t |-> "array", s |-> <<>>, kv |-> <<>>, items |-> items]
Obj(kv) == [t |-> "object", s |-> <<>>, kv |-> kv, items |-> <<>>]
KV(k, v) == [k |-> k, v |-> v]

\* obj[key], undefined when the object has no such key.
Get(obj, key) ==
  IF \E i \in 1..Len(obj.kv) : obj.kv[i].k = key
  THEN obj.kv[CHOOSE i \in 1..Len(obj.kv) : obj.kv[i].k = key].v
  ELSE Undefined

\* The rest of an object destructuring: obj without the keys named.
Omit(obj, keys) == Obj(SelectSeq(obj.kv, LAMBDA e : e.k \notin keys))

\* record[key] = value on a Record<string, string> kept as ordered entries:
\* an existing key keeps its place, a new key is appended.
Put(map, key, value) ==
  IF \E i \in 1..Len(map) : map[i].k = key
  THEN [i \in 1..Len(map) |->
          IF map[i].k = key THEN KV(key, value) ELSE map[i]]
  ELSE Append(map, KV(key, value))

RECURSIVE ObjectAssign(_, _)
ObjectAssign(target, source) ==
  IF source = <<>> THEN target
  ELSE ObjectAssign(Put(target, source[1].k, source[1].v), Tail(source))

(***************************************************************************)
(* The extractor                                                           *)
(***************************************************************************)

S_http == <<"h", "t", "t", "p", ":", "/", "/">>
S_https == <<"h", "t", "t", "p", "s", ":", "/", "/">>
S_slashes == <<"/", "/">>
S_hash == <<"#">>
S_rgb == <<"r", "g", "b", "(">>
S_rgba == <<"r", "g", "b", "a", "(">>
S_linearGradient ==
  <<"l", "i", "n", "e", "a", "r", "-", "g", "r", "a", "d", "i", "e", "n", "t">>

K_id == <<"i", "d">>
K_documentId == <<"d", "o", "c", "u", "m", "e", "n", "t", "I", "d">>
K_clientId == <<"c", "l", "i", "e", "n", "t", "I", "d">>
K_createdAt == <<"c", "r", "e", "a", "t", "e", "d", "A", "t">>
K_updatedAt == <<"u", "p", "d", "a", "t", "e", "d", "A", "t">>
K_publishedAt == <<"p", "u", "b", "l", "i", "s", "h", "e", "d", "A", "t">>
K_entrypoint == <<"e", "n", "t", "r", "y", "p", "o", "i", "n", "t">>
K_name == <<"n", "a", "m", "e">>
K_l10nId == <<"l", "1", "0", "n", "I", "d">>

MetadataKeys ==
  {K_id, K_documentId, K_clientId, K_createdAt, K_updatedAt, K_publishedAt,
   K_entrypoint, K_name, K_l10nId}

isStringValue(value) == value.t = "string" /\ Trim(value.s) # <<>>

isUrl(value) ==
  /\ value.t = "string"
  /\ \/ StartsWith(value.s, S_http)
     \/ StartsWith(value.s, S_https)
     \/ StartsWith(value.s, S_slashes)

\* /^\d{4}-\d{2}-\d{2}T\d{2}:\d{2}:\d{2}/: "d" stands for the class \d.
DatePattern ==
  <<"d", "d", "d", "d", "-", "d", "d", "-", "d", "d", "T",
    "d", "d", ":", "d", "d", ":", "d", "d">>

isDate(value) ==
  /\ value.t = "string"
  /\ Len(value.s) >= Len(DatePattern)
  /\ \A i \in 1..Len(DatePattern) :
       IF DatePattern[i] = "d" THEN value.s[i] \in Digit
       ELSE value.s[i] = DatePattern[i]

\* isColor without the test for a gradient anywhere in the value.
isColor_PrefixOnly(value) ==
  /\ value.t = "string"
  /\ \/ StartsWith(value.s, S_hash)
     \/ StartsWith(value.s, S_rgb)
     \/ StartsWith(value.s, S_rgba)

isColor(value) ==
  /\ value.t = "string"
  /\ \/ StartsWith(value.s, S_hash)
     \/ StartsWith(value.s, S_rgb)
     \/ StartsWith(value.s, S_rgba)
     \/ Includes(value.s, S_linearGradient)

\* shouldIncludeField without the test for metadata keys.
shouldIncludeField_AnyKey(key, value) ==
  IF ~isStringValue(value) THEN FALSE
  ELSE ~(isUrl(value) \/ isDate(value) \/ isColor(value))

shouldIncludeField(key, value) ==
  IF key \in MetadataKeys THEN FALSE
  ELSE IF ~isStringValue(value) THEN FALSE
  ELSE ~(isUrl(value) \/ isDate(value) \/ isColor(value))

\* `${prefix}.${key}` when the prefix is truthy (non-empty), else key.
FieldKey(prefix, key) ==
  IF prefix # <<>> THEN prefix \o <<".">> \o key ELSE key

\* The result is the Record<string, string> as its ordered entries.
RECURSIVE extractStringsFromObject(_, _)
extractStringsFromObject(obj, prefix) ==
  LET RECURSIVE Loop(_, _)
      Loop(i, strings) ==
        IF i > Len(obj.kv) THEN strings
        ELSE LET key == obj.kv[i].k
                 value == obj.kv[i].v
             IN IF value.t \in {"null", "undefined"} THEN Loop(i + 1, strings)
                ELSE IF value.t = "object"
                THEN Loop(i + 1,
                          ObjectAssign(strings,
                                       extractStringsFromObject(
                                         value, FieldKey(prefix, key))))
                ELSE IF shouldIncludeField(key, value)
                THEN Loop(i + 1, Put(strings, FieldKey(prefix, key), value.s))
                ELSE Loop(i + 1, strings)
  IN Loop(1, <<>>)

(***************************************************************************)
(* The sanitizer                                                           *)
(***************************************************************************)

\* Code points of the characters of the model that are not printable ASCII.
\* Every other character of the model lies in U+0020..U+007E, outside all
\* the ranges the sanitizer removes.
CodePoint ==
  ("\t" :> 9) @@ ("\n" :> 10) @@ ("\r" :> 13) @@ ("U+0007" :> 7) @@
  ("U+000B" :> 11) @@ ("U+000C" :> 12) @@ ("U+007F" :> 127) @@
  ("U+0085" :> 133) @@ ("U+00A0" :> 160) @@ ("U+00E9" :> 233) @@
  ("U+0301" :> 769) @@ ("U+0323" :> 803) @@ ("U+0591" :> 1425) @@
  ("U+0592" :> 1426) @@ ("U+200B" :> 8203) @@ ("U+200D" :> 8205) @@
  ("U+2028" :> 8232) @@ ("U+2029" :> 8233) @@ ("U+2066" :> 8294) @@
  ("U+2069" :> 8297) @@ ("U+FEFF" :> 65279)

InRange(c, lo, hi) ==
  c \in DOMAIN CodePoint /\ lo <= CodePoint[c] /\ CodePoint[c] <= hi

\* Canonical decomposition of one character (Unicode data).
Decompose(c) == IF c = "U+00E9" THEN <<"e", "U+0301">> ELSE <<c>>

\* Canonical combining class (Unicode data); 0 is a starter.
CombiningClass(c) ==
  CASE c \in {"U+0301", "U+0592"} -> 230
    [] c \in {"U+0323", "U+0591"} -> 220
    [] OTHER -> 0

RECURSIVE DecomposeAll(_)
DecomposeAll(s) ==
  IF s = <<>> THEN <<>> ELSE Decompose(Head(s)) \o DecomposeAll(Tail(s))

\* Canonical ordering: adjacent combining marks are put in non-decreasing
\* order of combining class, never across a starter.
RECURSIVE CanonicalOrder(_)
CanonicalOrder(s) ==
  LET Bad(i) == /\ CombiningClass(s[i + 1]) > 0
                /\ CombiningClass(s[i]) > CombiningClass(s[i + 1])
  IN IF \E i \in 1..(Len(s) - 1) : Bad(i)
     THEN LET i == CHOOSE j \in 1..(Len(s) - 1) : Bad(j)
          IN CanonicalOrder([k \in 1..Len(s) |->
                               IF k = i THEN s[i + 1]
                               ELSE IF k = i + 1 THEN s[i]
                               ELSE s[k]])
     ELSE s

\* String.prototype.normalize('NFD').
NormalizeNFD(s) == CanonicalOrder(DecomposeAll(s))

IsCombiningDiacritic(c) == InRange(c, 768, 879)

IsControlCharacter(c) ==
  \/ InRange(c, 0, 8)
  \/ InRange(c, 11, 12)
  \/ InRange(c, 14, 31)
  \/ InRange(c, 127, 159)

IsZeroWidth(c) == InRange(c, 8203, 8205) \/ InRange(c, 65279, 65279)

IsDirectionalIsolate(c) == InRange(c, 8294, 8297)

sanitizeContent(content) ==
  IF content = <<>> THEN <<>>
  ELSE Trim(
         SelectSeq(
           SelectSeq(
             SelectSeq(
               SelectSeq(NormalizeNFD(content),
                         LAMBDA c : ~IsCombiningDiacritic(c)),
               LAMBDA c : ~IsControlCharacter(c)),
             LAMBDA c : ~IsZeroWidth(c)),
           LAMBDA c : ~IsDirectionalIsolate(c)))

(***************************************************************************)
(* The identifier generator and its inverse                                *)
(***************************************************************************)

\* crypto.createHash('md5').update(value).digest('hex'): the MD5 digests
\* (of the UTF-8 encoding) of the sanitized values the model's inputs yield.
Md5Digests ==
  (<<"W", "e", "l", "c", "o", "m", "e", " ", "b", "a", "c", "k">> :>
     <<"e", "b", "d", "f", "0", "f", "4", "9", "0", "b", "6", "1", "7", "d",
       "7", "e", "f", "a", "3", "0", "2", "5", "d", "3", "6", "2", "5", "c",
       "e", "c", "8", "5">>) @@
  (<<"C", "o", "n", "t", "i", "n", "u", "e">> :>
     <<"a", "0", "b", "f", "b", "8", "e", "5", "9", "e", "6", "c", "1", "3",
       "f", "c", "8", "d", "9", "9", "0", "7", "8", "1", "f", "7", "7", "6",
       "9", "4", "f", "e">>) @@
  (<<"O", "f", "f", "e", "r", " ", "3", "0", "8", "8">> :>
     <<"5", "4", "0", "4", "7", "4", "6", "4", "a", "4", "7", "e", "1", "b",
       "c", "f", "0", "4", "9", "6", "9", "9", "e", "7", "5", "b", "5", "9",
       "c", "7", "8", "7">>) @@
  (<<"O", "f", "f", "e", "r", " ", "6", "9", "0", "5", "5">> :>
     <<"5", "4", "0", "4", "7", "4", "6", "4", "8", "c", "8", "a", "3", "b",
       "b", "5", "1", "4", "b", "1", "e", "7", "c", "d", "3", "e", "0", "6",
       "6", "5", "5", "8">>) @@
  (<<"h", "t", "t", "p", "s", ":", "/", "/", "e", "x", "a", "m", "p", "l",
     "e", ".", "c", "o", "m">> :>
     <<"c", "9", "8", "4", "d", "0", "6", "a", "a", "f", "b", "e", "c", "f",
       "6", "b", "c", "5", "5", "5", "6", "9", "f", "9", "6", "4", "1", "4",
       "8", "e", "a", "3">>) @@
  (<<"h", "t", "t", "p", ":", "/", "/", "a", ".", "i", "o">> :>
     <<"3", "8", "d", "6", "7", "d", "a", "9", "a", "1", "3", "e", "5", "5",
       "f", "8", "7", "0", "8", "8", "a", "9", "4", "6", "3", "3", "e", "e",
       "f", "f", "d", "f">>) @@
  (<<"/", "/", "c", "d", "n", ".", "a", ".", "i", "o">> :>
     <<"d", "f", "c", "3", "a", "9", "9", "3", "2", "c", "e", "c", "5", "0",
       "c", "7", "6", "b", "9", "3", "2", "a", "0", "8", "7", "d", "1", "e",
       "c", "7", "6", "a">>) @@
  (<<"2", "0", "2", "4", "-", "0", "1", "-", "0", "1", "T", "0", "0", ":",
     "0", "0", ":", "0", "0", "Z">> :>
     <<"8", "5", "0", "c", "d", "3", "c", "a", "d", "8", "0", "b", "8", "8",
       "0", "2", "b", "0", "c", "1", "6", "4", "a", "1", "6", "5", "4", "7",
       "8", "0", "9", "b">>) @@
  (<<"2", "0", "2", "4", "-", "0", "1", "-", "0", "1">> :>
     <<"f", "8", "6", "7", "f", "4", "b", "1", "b", "a", "3", "0", "b", "f",
       "4", "b", "b", "e", "d", "3", "4", "2", "c", "3", "2", "b", "8", "9",
       "1", "1", "0", "c">>) @@
  (<<"#", "f", "f", "0", "0", "0", "0">> :>
     <<"c", "c", "7", "0", "4", "d", "2", "a", "8", "a", "6", "c", "1", "1",
       "5", "4", "7", "e", "5", "1", "1", "b", "d", "6", "c", "7", "4", "6",
       "8", "2", "b", "d">>) @@
  (<<"r", "g", "b", "(", "0", ",", "0", ",", "0", ")">> :>
     <<"9", "4", "2", "b", "3", "6", "1", "e", "9", "6", "0", "f", "6", "7",
       "0", "1", "6", "7", "3", "5", "8", "0", "0", "0", "2", "f", "d", "5",
       "c", "a", "2", "1">>) @@
  (<<"r", "g", "b", "a", "(", "0", ",", "0", ",", "0", ",", "1", ")">> :>
     <<"e", "8", "7", "3", "7", "8", "7", "a", "f", "e", "9", "9", "f", "5",
       "8", "9", "e", "e", "c", "0", "a", "6", "3", "3", "c", "8", "8", "d",
       "c", "d", "c", "b">>) @@
  (<<"t", "o", " ", "l", "i", "n", "e", "a", "r", "-", "g", "r", "a", "d",
     "i", "e", "n", "t", "(", "r", "e", "d", ")">> :>
     <<"e", "b", "3", "e", "5", "3", "f", "9", "1", "4", "9", "e", "d", "4",
       "e", "a", "6", "9", "0", "9", "8", "9", "1", "0", "9", "d", "2", "4",
       "3", "b", "8", "0">>) @@
  (<<"S", "a", "y", " ", "\"", "h", "i", "\"">> :>
     <<"5", "b", "e", "5", "c", "4", "7", "a", "4", "4", "e", "8", "0", "b",
       "6", "7", "5", "3", "2", "a", "7", "3", "d", "5", "2", "d", "b", "6",
       "4", "c", "7", "9">>) @@
  (<<"\"", "Q", "u", "o", "t", "e", "d", "\"">> :>
     <<"c", "8", "8", "b", "f", "f", "9", "8", "3", "4", "b", "6", "c", "b",
       "3", "1", "0", "e", "0", "6", "d", "d", "9", "e", "c", "7", "2", "5",
       "5", "3", "4", "6">>) @@
  (<<"L", "i", "n", "e", "1", "\n", "L", "i", "n", "e", "2">> :>
     <<"0", "d", "7", "c", "2", "b", "7", "e", "b", "5", "2", "1", "e", "6",
       "7", "d", "2", "d", "5", "a", "3", "a", "d", "2", "f", "1", "5", "2",
       "e", "f", "d", "5">>) @@
  (<<"A", "\r", "B">> :>
     <<"3", "b", "a", "9", "1", "7", "0", "1", "f", "4", "0", "d", "3", "6",
       "e", "d", "4", "4", "8", "8", "2", "d", "e", "2", "d", "0", "e", "b",
       "c", "5", "1", "7">>) @@
  (<<"c", "a", "f", "e">> :>
     <<"d", "2", "6", "2", "6", "f", "4", "1", "2", "d", "a", "7", "4", "8",
       "e", "7", "1", "1", "c", "a", "4", "f", "4", "a", "e", "9", "4", "2",
       "8", "6", "6", "4">>) @@
  (<<"p", "a", "d", "d", "e", "d">> :>
     <<"5", "c", "f", "3", "2", "a", "f", "e", "3", "8", "2", "0", "9", "e",
       "9", "9", "6", "d", "f", "2", "e", "1", "3", "0", "d", "a", "9", "f",
       "b", "e", "d", "b">>) @@
  (<<"H", "i">> :>
     <<"c", "1", "a", "5", "2", "9", "8", "f", "9", "3", "9", "e", "8", "7",
       "e", "8", "f", "9", "6", "2", "a", "5", "e", "d", "f", "c", "2", "0",
       "6", "9", "1", "8">>) @@
  (<<"Y", "e", "s">> :>
     <<"9", "3", "c", "b", "a", "0", "7", "4", "5", "4", "f", "0", "6", "a",
       "4", "a", "9", "6", "0", "1", "7", "2", "b", "b", "d", "6", "e", "2",
       "a", "4", "3", "5">>) @@
  (<<"B", "o", "b">> :>
     <<"2", "f", "c", "1", "c", "0", "b", "e", "b", "9", "9", "2", "c", "d",
       "7", "0", "9", "6", "9", "7", "5", "c", "f", "e", "b", "f", "9", "d",
       "5", "c", "3", "b">>)

Md5Hex(value) == Md5Digests[value]

HashLength == 8

\* s.replace('.', d): only the first occurrence is replaced.
ReplaceFirstChar(s, c, d) ==
  [i \in 1..Len(s) |->
     IF s[i] = c /\ \A j \in 1..(i - 1) : s[j] # c THEN d ELSE s[i]]

\* generateFtlIdWithL10nId replacing only the first dot of the field path.
generateFtlIdWithL10nId_FirstDot(l10nId, fieldPath, value) ==
  LET hash == SubSeq(Md5Hex(value), 1, 8)
      fieldPathWithDashes == ReplaceFirstChar(fieldPath, ".", "-")
  IN l10nId \o <<"-">> \o fieldPathWithDashes \o <<"-">> \o hash

\* generateFtlIdWithL10nId without the hash of the value.
generateFtlIdWithL10nId_NoHash(l10nId, fieldPath, value) ==
  l10nId \o <<"-">> \o ReplaceChar(fieldPath, ".", "-")

generateFtlIdWithL10nId(l10nId, fieldPath, value) ==
  LET hash == SubSeq(Md5Hex(value), 1, HashLength)
      fieldPathWithDashes == ReplaceChar(fieldPath, ".", "-")
  IN l10nId \o <<"-">> \o fieldPathWithDashes \o <<"-">> \o hash

MinIdParts == 4

\* parseFtlIdToFieldPath keeping the hash: parts.slice(1).
parseFtlIdToFieldPath_KeepHash(ftlId) ==
  LET parts == Split(ftlId, "-")
  IN IF Len(parts) >= MinIdParts
     THEN [ok |-> TRUE, path |-> Join(Tail(parts), <<".">>)]
     ELSE [ok |-> FALSE, path |-> <<>>]

\* The result is [ok |-> FALSE] for null.
parseFtlIdToFieldPath(ftlId) ==
  LET parts == Split(ftlId, "-")
  IN IF Len(parts) >= MinIdParts
     THEN [ok |-> TRUE, path |-> Join(SliceMiddle(parts), <<".">>)]
     ELSE [ok |-> FALSE, path |-> <<>>]

(***************************************************************************)
(* The serializer                                                          *)
(***************************************************************************)

LowerSeq ==
  <<"a", "b", "c", "d", "e", "f", "g", "h", "i", "j", "k", "l", "m",
    "n", "o", "p", "q", "r", "s", "t", "u", "v", "w", "x", "y", "z">>

UpperSeq ==
  <<"A", "B", "C", "D", "E", "F", "G", "H", "I", "J", "K", "L", "M",
    "N", "O", "P", "Q", "R", "S", "T", "U", "V", "W", "X", "Y", "Z">>

IndexOf(seq, c) == CHOOSE i \in 1..Len(seq) : seq[i] = c

\* String.prototype.toUpperCase on one character of the model.
ToUpperCase(c) == IF c \in LowerCase THEN UpperSeq[IndexOf(LowerSeq, c)] ELSE c

ToLowerCase(c) == IF c \in UpperCase THEN LowerSeq[IndexOf(UpperSeq, c)] ELSE c

\* name.replace(/([A-Z])/g, ' $1').replace(/^./, s => s.toUpperCase()).trim()
RECURSIVE SpaceBeforeCapitals(_)
SpaceBeforeCapitals(s) ==
  IF s = <<>> THEN <<>>
  ELSE (IF Head(s) \in UpperCase THEN <<" ", Head(s)>> ELSE <<Head(s)>>)
       \o SpaceBeforeCapitals(Tail(s))

\* /^./ does not match a line terminator.
CapitalizeFirst(s) ==
  IF s # <<>> /\ Head(s) \notin {"\n", "\r", "U+2028", "U+2029"}
  THEN <<ToUpperCase(Head(s))>> \o Tail(s)
  ELSE s

Readable(s) == Trim(CapitalizeFirst(SpaceBeforeCapitals(s)))

S_Unknown == <<"U", "n", "k", "n", "o", "w", "n">>
S_for == <<" ", "f", "o", "r", " ">>

generateFieldComment(fieldPath) ==
  LET parts == Split(fieldPath, ".")
      componentName == IF parts[1] # <<>> THEN parts[1] ELSE S_Unknown
      fieldName == IF Len(parts) >= 2 /\ parts[2] # <<>> THEN parts[2]
                   ELSE S_Unknown
  IN Readable(fieldName) \o S_for \o Readable(componentName)

\* Primary collation weights of String.prototype.localeCompare (the root
\* collation: punctuation, then digits, then letters; case is a tertiary
\* difference) for the characters identifiers and field paths are made of.
CollationOrder ==
  <<"_", "-", ".", "0", "1", "2", "3", "4", "5", "6", "7", "8", "9">>
  \o LowerSeq

PrimaryWeight(c) == IndexOf(CollationOrder, ToLowerCase(c))

RECURSIVE ComparePrimary(_, _)
ComparePrimary(a, b) ==
  IF a = <<>> /\ b = <<>> THEN 0
  ELSE IF a = <<>> THEN -1
  ELSE IF b = <<>> THEN 1
  ELSE IF PrimaryWeight(Head(a)) < PrimaryWeight(Head(b)) THEN -1
  ELSE IF PrimaryWeight(Head(a)) > PrimaryWeight(Head(b)) THEN 1
  ELSE ComparePrimary(Tail(a), Tail(b))

\* Strings equal at the primary level: lower case sorts before upper case
\* at the first difference.
RECURSIVE CompareCase(_, _)
CompareCase(a, b) ==
  IF a = <<>> \/ b = <<>> THEN 0
  ELSE IF Head(a) = Head(b) THEN CompareCase(Tail(a), Tail(b))
  ELSE IF Head(a) \in LowerCase THEN -1
  ELSE 1

localeCompare(a, b) ==
  IF ComparePrimary(a, b) # 0 THEN ComparePrimary(a, b) ELSE CompareCase(a, b)

\* The comparator of allEntries.sort.
CompareEntries(a, b) ==
  IF a.l10nId # b.l10nId THEN localeCompare(a.l10nId, b.l10nId)
  ELSE localeCompare(a.fieldPath, b.fieldPath)

\* Array.prototype.sort is stable: an entry is inserted after the entries
\* that do not compare greater than it.
RECURSIVE InsertSorted(_, _)
InsertSorted(sorted, e) ==
  IF sorted = <<>> THEN <<e>>
  ELSE IF CompareEntries(e, Head(sorted)) < 0 THEN <<e>> \o sorted
  ELSE <<Head(sorted)>> \o InsertSorted(Tail(sorted), e)

\* SortEntries without the sort.
SortEntries_Unsorted(entries) == entries

RECURSIVE SortEntries(_)
SortEntries(entries) ==
  IF entries = <<>> THEN <<>>
  ELSE InsertSorted(SortEntries(SubSeq(entries, 1, Len(entries) - 1)),
                    entries[Len(entries)])

\* JavaScript truthiness of a JSON value (numbers of the model are non-zero).
Truthy(v) ==
  CASE v.t \in {"null", "undefined"} -> FALSE
    [] v.t = "string" -> v.s # <<>>
    [] OTHER -> TRUE

\* The entries strapiToFtl does not skip: objects (arrays included, which
\* have no l10nId) with a truthy l10nId.  The model's l10nId values are
\* strings, null or absent.
\* IsLocalizableEntry without the test of the l10nId.
IsLocalizableEntry_AnyObject(entry) == entry.t \in {"object", "array"}

IsLocalizableEntry(entry) ==
  /\ entry.t \in {"object", "array"}
  /\ Truthy(Get(entry, K_l10nId))

\* const { l10nId, name, entrypoint, ...entryData } = entry
EntryData(entry) == Omit(entry, {K_l10nId, K_name, K_entrypoint})

\* The resource entries one CMS entry contributes, in extraction order.
EntryResources(entry) ==
  LET l10nId == Get(entry, K_l10nId).s
      strings == extractStringsFromObject(EntryData(entry), <<>>)
  IN [i \in 1..Len(strings) |->
        LET sanitizedValue == sanitizeContent(strings[i].v)
        IN [l10nId |-> l10nId,
            ftlId |-> generateFtlIdWithL10nId(l10nId, strings[i].k,
                                              sanitizedValue),
            value |-> sanitizedValue,
            fieldPath |-> strings[i].k,
            entryName |-> Get(entry, K_name),
            entrypoint |-> Get(entry, K_entrypoint)]]

RECURSIVE CollectEntries(_)
CollectEntries(data) ==
  IF data = <<>> THEN <<>>
  ELSE (IF IsLocalizableEntry(Head(data)) THEN EntryResources(Head(data))
        ELSE <<>>)
       \o CollectEntries(Tail(data))

\* Removal of duplicates by FTL id, keeping the first occurrence.
RECURSIVE UniqueEntries(_, _)
UniqueEntries(entries, seenFtlIds) ==
  IF entries = <<>> THEN <<>>
  ELSE IF Head(entries).ftlId \in seenFtlIds
  THEN UniqueEntries(Tail(entries), seenFtlIds)
  ELSE <<Head(entries)>>
       \o UniqueEntries(Tail(entries), seenFtlIds \cup {Head(entries).ftlId})

S_generatedOn ==
  <<"#", " ", "G", "e", "n", "e", "r", "a", "t", "e", "d", " ", "o", "n", " ">>
S_fileHeader ==
  <<"#", " ", "F", "T", "L", " ", "f", "i", "l", "e", " ", "f", "o", "r", " ",
    "C", "M", "S", " ", "l", "o", "c", "a", "l", "i", "z", "a", "t", "i", "o",
    "n">>
S_CMSEntry == <<"C", "M", "S", " ", "E", "n", "t", "r", "y">>
S_comment == <<"#", " ">>
S_dash == <<" ", "-", " ">>
S_equals == <<" ", "=", " ">>

\* The line that carries one resource entry.
DataLine(entry) == entry.ftlId \o S_equals \o entry.value

\* The lines pushed for the unique entries, given the current l10nId.
RECURSIVE EntryLines(_, _)
EntryLines(entries, currentL10nId) ==
  IF entries = <<>> THEN <<>>
  ELSE LET entry == Head(entries)
           header ==
             IF entry.l10nId # currentL10nId
             THEN (IF currentL10nId # <<>> THEN << <<>> >> ELSE <<>>)
                  \o << S_comment \o entry.l10nId \o S_dash
                        \o (IF Truthy(entry.entryName) THEN entry.entryName.s
                            ELSE S_CMSEntry) >>
             ELSE <<>>
       IN header
          \o << S_comment \o generateFieldComment(entry.fieldPath),
                DataLine(entry) >>
          \o EntryLines(Tail(entries), entry.l10nId)

\* strapiToFtl(strapiData) when new Date().toISOString() is timestamp.
strapiToFtl(data, timestamp) ==
  Join(<< S_generatedOn \o timestamp, S_fileHeader, <<>> >>
       \o EntryLines(UniqueEntries(SortEntries(CollectEntries(data)), {}),
                     <<>>),
       <<"\n">>)

(***************************************************************************)
(* The deserializer                                                        *)
(***************************************************************************)

\* [a-zA-Z0-9_-]
IdChars == LowerCase \cup UpperCase \cup Digit \cup {"_", "-"}

\* The length of the longest prefix of s made of characters of class.
RECURSIVE PrefixLength(_, _)
PrefixLength(s, class) ==
  IF s # <<>> /\ Head(s) \in class THEN 1 + PrefixLength(Tail(s), class)
  ELSE 0

Drop(s, n) == SubSeq(s, n + 1, Len(s))

\* /^([a-zA-Z0-9_-]+)\s*=\s*"([^"]*)"$/ on a trimmed line.
MatchDataLine(line) ==
  LET idLen == PrefixLength(line, IdChars)
      afterId == Drop(line, idLen)
      atEquals == Drop(afterId, PrefixLength(afterId, WhiteSpace))
      afterEquals == IF atEquals # <<>> THEN Tail(atEquals) ELSE <<>>
      atQuote == Drop(afterEquals, PrefixLength(afterEquals, WhiteSpace))
      quoted == IF atQuote # <<>> THEN Tail(atQuote) ELSE <<>>
      ok == /\ idLen >= 1
            /\ atEquals # <<>> /\ Head(atEquals) = "="
            /\ atQuote # <<>> /\ Head(atQuote) = "\""
            /\ quoted # <<>> /\ quoted[Len(quoted)] = "\""
            /\ \A i \in 1..(Len(quoted) - 1) : quoted[i] # "\""
  IN IF ok
     THEN [ok |-> TRUE, ftlId |-> SubSeq(line, 1, idLen),
           value |-> SubSeq(quoted, 1, Len(quoted) - 1)]
     ELSE [ok |-> FALSE, ftlId |-> <<>>, value |-> <<>>]

\* s.replace(/\\c/g, d): every backslash followed by c becomes d.
RECURSIVE Unescape(_, _, _)
Unescape(s, c, d) ==
  IF Len(s) < 2 THEN s
  ELSE IF s[1] = "\\" /\ s[2] = c THEN <<d>> \o Unescape(Drop(s, 2), c, d)
  ELSE <<Head(s)>> \o Unescape(Tail(s), c, d)

UnescapeValue(value) ==
  Unescape(Unescape(Unescape(value, "\"", "\""), "n", "\n"), "r", "\r")

MinL10nIdParts == 3
MinPathParts == 2

TypeError == [t |-> "TypeError", s |-> <<>>, kv |-> <<>>, items |-> <<>>]

\* obj[key] = value on an object kept as ordered entries.
SetKey(obj, key, value) == Obj(Put(obj.kv, key, value))

\* The effect of one line of the file on strapiFormat.  Setting a property
\* on a truthy primitive (a base metadata string used as a component) is a
\* TypeError in strict mode.
ConvertLine(strapiFormat, l10nId, line) ==
  LET trimmedLine == Trim(line)
      match == MatchDataLine(trimmedLine)
      ftlIdParts == Split(match.ftlId, "-")
      fieldPath == parseFtlIdToFieldPath(match.ftlId)
      parts == Split(fieldPath.path, ".")
      componentName == parts[1]
      fieldName == parts[2]
      component == Get(strapiFormat, componentName)
  IN IF trimmedLine = <<>> \/ StartsWith(trimmedLine, S_hash)
     THEN strapiFormat
     ELSE IF ~match.ok THEN strapiFormat
     ELSE IF Len(ftlIdParts) < MinL10nIdParts THEN strapiFormat
     ELSE IF ftlIdParts[1] # l10nId THEN strapiFormat
     ELSE IF ~(fieldPath.ok /\ fieldPath.path # <<>>) THEN strapiFormat
     ELSE IF Len(parts) < MinPathParts THEN strapiFormat
     ELSE IF Truthy(component) /\ component.t # "object" THEN TypeError
     ELSE SetKey(strapiFormat, componentName,
                 SetKey(IF Truthy(component) THEN component ELSE Obj(<<>>),
                        fieldName, Str(UnescapeValue(match.value))))

RECURSIVE ConvertLines(_, _, _)
ConvertLines(strapiFormat, l10nId, lines) ==
  IF lines = <<>> \/ strapiFormat = TypeError THEN strapiFormat
  ELSE ConvertLines(ConvertLine(strapiFormat, l10nId, Head(lines)), l10nId,
                    Tail(lines))

convertFtlToStrapiFormat(l10nId, ftlContent, baseData) ==
  ConvertLines(Obj(<< KV(K_clientId, Get(baseData, K_clientId)),
                      KV(K_entrypoint, Get(baseData, K_entrypoint)),
                      KV(K_name, Get(baseData, K_name)),
                      KV(K_l10nId, Get(baseData, K_l10nId)) >>),
               l10nId, Split(ftlContent, "\n"))

(***************************************************************************)
(* Inputs: CMS entries and the clock                                       *)
(***************************************************************************)

\* The greatest number of objects between an entry and a string in it.
MaxDepth == 3

\* The greatest number of CMS entries in one fetched list of entries that
\* combines entries.
MaxEntries == 2

K_text == <<"t", "e", "x", "t">>
K_headline == <<"h", "e", "a", "d", "l", "i", "n", "e">>
K_page == <<"p", "a", "g", "e">>
K_section == <<"s", "e", "c", "t", "i", "o", "n">>
K_block == <<"b", "l", "o", "c", "k">>
K_button == <<"b", "u", "t", "t", "o", "n">>
K_label == <<"l", "a", "b", "e", "l">>
K_url == <<"u", "r", "l">>
K_count == <<"c", "o", "u", "n", "t">>
K_items == <<"i", "t", "e", "m", "s">>
K_first == <<"f", "i", "r", "s", "t">>

L_signin == <<"s", "i", "g", "n", "i", "n">>
L_signup == <<"s", "i", "g", "n", "u", "p">>
L_signinPage == <<"s", "i", "g", "n", "i", "n", "-", "p", "a", "g", "e">>

N_SignIn == <<"S", "i", "g", "n", "I", "n">>
V_Hi == <<"H", "i">>
V_Yes == <<"Y", "e", "s">>
V_Bob == <<"B", "o", "b">>
V_clientId == <<"a", "b", "c", "1", "2", "3">>

V_welcome == <<"W", "e", "l", "c", "o", "m", "e", " ", "b", "a", "c", "k">>
V_continue == <<"C", "o", "n", "t", "i", "n", "u", "e">>
V_offerA == <<"O", "f", "f", "e", "r", " ", "3", "0", "8", "8">>
V_offerB == <<"O", "f", "f", "e", "r", " ", "6", "9", "0", "5", "5">>
V_https ==
  <<"h", "t", "t", "p", "s", ":", "/", "/", "e", "x", "a", "m", "p", "l",
    "e", ".", "c", "o", "m">>
V_http == <<"h", "t", "t", "p", ":", "/", "/", "a", ".", "i", "o">>
V_protocolRelative == <<"/", "/", "c", "d", "n", ".", "a", ".", "i", "o">>
V_date ==
  <<"2", "0", "2", "4", "-", "0", "1", "-", "0", "1", "T", "0", "0", ":",
    "0", "0", ":", "0", "0", "Z">>
V_dateOnly == <<"2", "0", "2", "4", "-", "0", "1", "-", "0", "1">>
V_hexColor == <<"#", "f", "f", "0", "0", "0", "0">>
V_rgb == <<"r", "g", "b", "(", "0", ",", "0", ",", "0", ")">>
V_rgba ==
  <<"r", "g", "b", "a", "(", "0", ",", "0", ",", "0", ",", "1", ")">>
V_gradient ==
  <<"t", "o", " ", "l", "i", "n", "e", "a", "r", "-", "g", "r", "a", "d",
    "i", "e", "n", "t", "(", "r", "e", "d", ")">>
V_blank == <<" ", " ">>
V_empty == <<>>
V_quotes == <<"S", "a", "y", " ", "\"", "h", "i", "\"">>
V_quoted == <<"\"", "Q", "u", "o", "t", "e", "d", "\"">>
V_newline == <<"L", "i", "n", "e", "1", "\n", "L", "i", "n", "e", "2">>
V_carriageReturn == <<"A", "\r", "B">>
V_accent == <<"c", "a", "f", "U+00E9">>
V_padded == <<" ", "p", "a", "d", "d", "e", "d", " ">>
V_spaceColor == <<" ", "#", "f", "f", "0", "0", "0", "0">>

RawValues ==
  {V_welcome, V_continue, V_offerA, V_offerB,
   V_https, V_http, V_protocolRelative, V_date,
   V_dateOnly, V_hexColor, V_rgb, V_rgba,
   V_gradient, V_blank, V_empty, V_quotes,
   V_quoted, V_newline, V_carriageReturn, V_accent,
   V_padded, V_spaceColor}

\* A field path of d keys: the last d keys of this chain.
KeyChain == <<K_block, K_section, K_page, K_headline, K_text>>

PathOfDepth(d) == SubSeq(KeyChain, Len(KeyChain) - d + 1, Len(KeyChain))

\* { keys[1]: { keys[2]: ... value } }
RECURSIVE Nest(_, _)
Nest(keys, value) ==
  IF keys = <<>> THEN value
  ELSE Obj(<< KV(Head(keys), Nest(Tail(keys), value)) >>)

\* A CMS entry with the identity fields l10nId, name and entrypoint.
Entry(l10nId, fields) ==
  Obj(<< KV(K_l10nId, Str(l10nId)), KV(K_name, Str(N_SignIn)),
         KV(K_entrypoint, Str(V_https)) >> \o fields)

\* { l10nId, name, entrypoint, headline: { text: value } }
HeadlineEntry(l10nId, value) ==
  Entry(l10nId, << KV(K_headline, Obj(<< KV(K_text, Str(value)) >>)) >>)

\* One entry per value and nesting depth.
ValueEntries ==
  { Entry(L_signin, Nest(PathOfDepth(d), Str(v)).kv) :
      v \in RawValues, d \in 1..MaxDepth }

\* Entries with arrays, metadata keys, nulls, numbers and several fields.
ShapeEntries ==
  { Entry(L_signin,
          << KV(K_headline, Obj(<< KV(K_text, Arr(<< Str(V_Hi) >>)) >>)) >>),
    Entry(L_signin,
          << KV(K_items, Arr(<< Obj(<< KV(K_text, Str(V_Hi)) >>) >>)),
             KV(K_button, Obj(<< KV(K_label, Str(V_continue)) >>)) >>),
    Entry(L_signin,
          << KV(K_headline, Obj(<< KV(K_name, Str(V_Bob)),
                                   KV(K_id, Str(V_Yes)),
                                   KV(K_text, Str(V_Hi)) >>)) >>),
    Entry(L_signin,
          << KV(K_headline, Obj(<< KV(K_name,
                                      Obj(<< KV(K_first, Str(V_Bob)) >>)) >>))
          >>),
    Entry(L_signin,
          << KV(K_headline, Obj(<< KV(K_text, Null), KV(K_count, Num),
                                   KV(K_label, Str(V_Yes)) >>)),
             KV(K_documentId, Str(V_clientId)) >>),
    Entry(L_signin,
          << KV(K_headline, Obj(<< KV(K_text, Str(V_welcome)),
                                   KV(K_url, Str(V_https)) >>)),
             KV(K_button, Obj(<< KV(K_label, Str(V_continue)),
                                 KV(K_text, Str(V_hexColor)) >>)) >>) }

\* Elements strapiToFtl must skip: no l10nId, an empty or null l10nId, and
\* elements that are not objects.
NotLocalizable ==
  { Obj(<< KV(K_name, Str(N_SignIn)),
           KV(K_headline, Obj(<< KV(K_text, Str(V_welcome)) >>)) >>),
    Obj(<< KV(K_l10nId, Str(<<>>)),
           KV(K_headline, Obj(<< KV(K_text, Str(V_Hi)) >>)) >>),
    Obj(<< KV(K_l10nId, Null),
           KV(K_headline, Obj(<< KV(K_text, Str(V_Yes)) >>)) >>),
    Null,
    Str(V_welcome),
    Arr(<< HeadlineEntry(L_signin, V_Hi) >>) }

\* The entries that lists of several entries are made of.
CombinedEntries ==
  { HeadlineEntry(L_signin, V_welcome),
    HeadlineEntry(L_signin, V_offerA),
    HeadlineEntry(L_signin, V_offerB),
    HeadlineEntry(L_signup, V_welcome),
    HeadlineEntry(L_signinPage, V_welcome),
    Entry(L_signin,
          << KV(K_page, Obj(<< KV(K_headline,
                                  Obj(<< KV(K_text, Str(V_welcome)) >>)) >>))
          >>),
    Obj(<< KV(K_name, Str(N_SignIn)),
           KV(K_headline, Obj(<< KV(K_text, Str(V_continue)) >>)) >>),
    Null }

InputLists ==
  { <<e>> : e \in ValueEntries \cup ShapeEntries \cup NotLocalizable }
  \cup UNION { [1..n -> CombinedEntries] : n \in 0..MaxEntries }

\* Values of new Date().toISOString().
Timestamps ==
  { <<"2", "0", "2", "4", "-", "0", "5", "-", "0", "1", "T", "1", "0", ":",
      "0", "0", ":", "0", "0", ".", "0", "0", "0", "Z">>,
    <<"2", "0", "2", "4", "-", "0", "5", "-", "0", "2", "T", "1", "1", ":",
      "3", "0", ":", "0", "0", ".", "0", "0", "0", "Z">> }

\* The l10nIds localized data is requested for.
TargetL10nIds == {L_signin, L_signup, L_signinPage}

\* The base CMS data of the entry with an l10nId.
BaseData(l10nId) ==
  Obj(<< KV(K_clientId, Str(V_clientId)), KV(K_entrypoint, Str(V_https)),
         KV(K_name, Str(N_SignIn)), KV(K_l10nId, Str(l10nId)) >>)

(***************************************************************************)
(* The localization pipeline as a state machine                            *)
(***************************************************************************)

VARIABLES
  strapiData,    \* the entries fetched from the CMS
  phase,         \* "idle", "fetched", "generated" or "converted"
  extracted,     \* strapiToFtl: the strings extracted from each entry
  allEntries,    \* strapiToFtl: the collected entries, sorted
  ftlContent,    \* the text strapiToFtl returned
  targetL10nId,  \* convertFtlToStrapiFormat: its l10nId argument
  strapiFormat   \* the object convertFtlToStrapiFormat returned

ftlVars ==
  <<strapiData, phase, extracted, allEntries, ftlContent, targetL10nId,
    strapiFormat>>

VARIABLES
  pulls,         \* host: the pull requests, newest first
  branches,      \* host: branch name -> the localization file on it
  nextNumber,    \* host: the number the next pull request gets
  now,           \* the clock Date.now() reads, in milliseconds
  enforceSha,    \* host: whether a write must carry the file's current sha
  failures,      \* remote calls that failed for a transient reason so far
  envOps,        \* things other users of the repository did so far
  pc,            \* per run: the remote call it is about to issue
  attempt,       \* per run: how many times it was invoked
  existingPR,    \* per run: the number findExistingPR returned, or NoPR
  headRef,       \* per run: pr.head.ref in updateExistingPR
  fileSha,       \* per run: fileSha in updateExistingPR / createGitHubPR
  branchName,    \* per run: branchName in createGitHubPR
  refSha,        \* per run: refData.object.sha in createGitHubPR
  calls,         \* per run: the remote calls issued, with their outcomes
  log,           \* per run: the log entries written
  rejected       \* per run: the error the failed operation threw

hostVars == <<pulls, branches, nextNumber, now, enforceSha, failures, envOps>>

runVars ==
  <<pc, attempt, existingPR, headRef, fileSha, branchName, refSha, calls, log,
    rejected>>

prVars == <<hostVars, runVars>>

VARIABLES
  fn,            \* the function called on its own, "" before any call
  args,          \* its arguments, as they are when it is called
  ret,           \* what it returned
  after          \* its arguments, as they are when it has returned

fnVars == <<fn, args, ret, after>>

\* The browser's local storage as account-cache.ts uses it, and a Session.
VARIABLES
  accounts,           \* localStorage 'accounts': storage key -> account
  currentAccountUid,  \* localStorage 'currentAccountUid', Undefined if absent
  storedAtStart,      \* what 'accounts' held when the page was loaded
  cacheOp,            \* the last operation on the cache, "" before any
  cacheThrown,        \* the error that operation threw, "" if it returned
  sessionPc           \* where Session.destroy() is: "idle" or "clearing"

cacheVars == <<accounts, currentAccountUid, storedAtStart, cacheOp,
               cacheThrown, sessionPc>>

\* The state hooks of SubscriptionContent and the position of resubscribe().
VARIABLES
  canResubscribe,     \* the prop subscription.canResubscribe
  checkedState,
  showCancel,
  openResubscribeDialog,
  openResubscribeSuccessDialog,
  pendingResubscribe,
  showResubscribeActionError,
  resubscribePc,      \* where resubscribe() is: "idle" (not running),
                      \* "action" (awaiting the action), "timeout" (awaiting
                      \* the 500 ms timer)
  actionResult        \* how the last awaited action ended: "none", "ok",
                      \* "notOk" or "rejected"

uiVars == <<canResubscribe, checkedState, showCancel, openResubscribeDialog,
            openResubscribeSuccessDialog, pendingResubscribe,
            showResubscribeActionError, resubscribePc, actionResult>>

vars == <<ftlVars, prVars, fnVars, cacheVars, uiVars>>

\* The variables the serializer, the reconciler, the functions, the account
\* cache and the subscription page, respectively, never touch.
outsideFtl == <<prVars, fnVars, cacheVars, uiVars>>

outsidePR == <<ftlVars, fnVars, cacheVars, uiVars>>

outsideFn == <<ftlVars, prVars, cacheVars, uiVars>>

outsideCache == <<ftlVars, prVars, fnVars, uiVars>>

outsideUi == <<ftlVars, prVars, fnVars, cacheVars>>

FtlInit ==
  /\ strapiData \in InputLists
  /\ phase = "fetched"
  /\ extracted = <<>>
  /\ allEntries = <<>>
  /\ ftlContent = <<>>
  /\ targetL10nId = <<>>
  /\ strapiFormat = Undefined

\* No CMS data has been fetched.
FtlIdle ==
  /\ strapiData = <<>>
  /\ phase = "idle"
  /\ extracted = <<>>
  /\ allEntries = <<>>
  /\ ftlContent = <<>>
  /\ targetL10nId = <<>>
  /\ strapiFormat = Undefined

StrapiToFtl ==
  /\ phase = "fetched"
  /\ \E timestamp \in Timestamps :
       ftlContent' = strapiToFtl(strapiData, timestamp)
  /\ extracted' =
       [i \in 1..Len(strapiData) |->
          IF IsLocalizableEntry(strapiData[i])
          THEN extractStringsFromObject(EntryData(strapiData[i]), <<>>)
          ELSE <<>>]
  /\ allEntries' = SortEntries(CollectEntries(strapiData))
  /\ phase' = "generated"
  /\ UNCHANGED <<strapiData, targetL10nId, strapiFormat>>
  /\ UNCHANGED outsideFtl

ConvertFtlToStrapiFormat ==
  /\ phase = "generated"
  /\ \E l10nId \in TargetL10nIds :
       /\ targetL10nId' = l10nId
       /\ strapiFormat' =
            convertFtlToStrapiFormat(l10nId, ftlContent, BaseData(l10nId))
  /\ phase' = "converted"
  /\ UNCHANGED <<strapiData, extracted, allEntries, ftlContent>>
  /\ UNCHANGED outsideFtl

FtlNext == StrapiToFtl \/ ConvertFtlToStrapiFormat

(***************************************************************************)
(* The repository reconciler: findExistingPR, updateExistingPR and         *)
(* createGitHubPR against the repository host.  A run is one invocation of *)
(* the pipeline; every awaited remote call is one step of the run, so the  *)
(* steps of different runs interleave at each call.                        *)
(***************************************************************************)

NumRuns == 2       \* pipeline runs, which may overlap
MaxAttempts == 2   \* times the caller invokes one run's pipeline
MaxFailures == 1   \* remote calls that fail for a transient reason
MaxTicks == 1      \* milliseconds that pass on the clock
MaxEnvOps == 1     \* things other users of the repository do

Runs == 1..NumRuns

\* per_page of pulls.list.
PerPage == 100

S_cmsFtl == <<"c", "m", "s", ".", "f", "t", "l">>

S_CMSLocalization ==
  <<"C", "M", "S", " ", "l", "o", "c", "a", "l", "i", "z", "a", "t", "i", "o",
    "n">>

\* The title createGitHubPR gives its pull request.
T_created ==
  <<"U+1F310", " ", "A", "d", "d", " ", "C", "M", "S", " ", "l", "o", "c",
    "a", "l", "i", "z", "a", "t", "i", "o", "n", " ", "f", "i", "l", "e", " ",
    "(", "c", "m", "s", ".", "f", "t", "l", ")">>

\* A title somebody gave a localization pull request by hand.
T_localization ==
  <<"S", "y", "n", "c", " ", "C", "M", "S", " ", "l", "o", "c", "a", "l", "i",
    "z", "a", "t", "i", "o", "n", " ", "s", "t", "r", "i", "n", "g", "s">>

\* The title of a pull request about something else.
T_other == <<"F", "i", "x", " ", "t", "y", "p", "o">>

S_branchPrefix ==
  <<"c", "m", "s", "-", "l", "o", "c", "a", "l", "i", "z", "a", "t", "i", "o",
    "n", "-">>

\* config.cmsl10n.github.branch
BaseBranch == <<"m", "a", "i", "n">>

OtherBranch == <<"p", "a", "t", "c", "h", "-", "1">>

M_update == "Update CMS localization file (cms.ftl) - Strapi webhook sync"

M_add == "Add CMS localization file (cms.ftl) - Strapi webhook generated"

DigitChars == <<"0", "1", "2", "3", "4", "5", "6", "7", "8", "9">>

\* String(n) for a non-negative integer.
RECURSIVE Decimal(_)
Decimal(n) ==
  IF n < 10 THEN <<DigitChars[n + 1]>>
  ELSE Decimal(n \div 10) \o <<DigitChars[(n % 10) + 1]>>

\* `cms-localization-${Date.now()}`
BranchName(time) == S_branchPrefix \o Decimal(time)

\* The clock when the first run may start, and the branch of a pull request
\* opened before that.
StartTime == 1

InitialBranch == BranchName(StartTime - 1)

NoPR == 0

NoSha == <<>>

\* The host names a file's revision by a digest of its content.
BlobSha(content) == <<"blob">> \o content

NoFile == [exists |-> FALSE, content |-> <<>>, sha |-> NoSha]

File(content) == [exists |-> TRUE, content |-> content, sha |-> BlobSha(content)]

\* The file in the repository before any run, and the text run r generated.
InitialContent == <<"ftl", 0>>

FtlOf(r) == <<"ftl", r>>

PullRequest(number, title, head) ==
  [number |-> number, title |-> title, state |-> "open", head |-> head]

Min(a, b) == IF a <= b THEN a ELSE b

\* pulls.list({ state: 'open', per_page }): the first page of the open pull
\* requests, newest first.
ListPulls(all, perPage) ==
  LET open == SelectSeq(all, LAMBDA pr : pr.state = "open")
  IN SubSeq(open, 1, Min(Len(open), perPage))

\* The predicate findExistingPR passes to find().
TitleMatches(pr) ==
  /\ Includes(pr.title, S_cmsFtl) \/ Includes(pr.title, S_CMSLocalization)
  /\ pr.state = "open"

\* pullRequests.find(...): the number of the first match, or NoPR.
FindFirst(pullRequests) ==
  LET matches == { i \in 1..Len(pullRequests) : TitleMatches(pullRequests[i]) }
  IN IF matches = {} THEN NoPR
     ELSE pullRequests[CHOOSE i \in matches : \A j \in matches : i <= j].number

\* pulls.get({ pull_number }).
GetPull(all, number) ==
  all[CHOOSE i \in 1..Len(all) : all[i].number = number]

\* Whether the host accepts createOrUpdateFileContents on a branch.
WriteAccepted(branch, sha) ==
  /\ branch \in DOMAIN branches
  /\ enforceSha => sha = branches[branch].sha

Call(op, target, sha, message, outcome) ==
  [op |-> op, target |-> target, sha |-> sha, message |-> message,
   outcome |-> outcome]

LogEntry(level, key) == [level |-> level, key |-> key]

NoError == [op |-> "", outcome |-> "ok"]

Error(op, outcome) == [op |-> op, outcome |-> outcome]

\* The outcomes of a remote call that are not decided by the repository: it
\* succeeds, or it fails for a transient reason (network, rate limit, 5xx).
Outcomes == IF failures < MaxFailures THEN {"ok", "error"} ELSE {"ok"}

PrInit ==
  /\ \E baseFile \in {NoFile, File(InitialContent)} :
       \/ /\ pulls = <<>>
          /\ branches = (BaseBranch :> baseFile)
          /\ nextNumber = 1
       \/ \E headFile \in {NoFile, File(InitialContent)} :
            /\ pulls = <<PullRequest(1, T_localization, InitialBranch)>>
            /\ branches = (BaseBranch :> baseFile) @@ (InitialBranch :> headFile)
            /\ nextNumber = 2
  /\ now = StartTime
  /\ enforceSha \in BOOLEAN
  /\ failures = 0
  /\ envOps = 0
  /\ pc = [r \in Runs |-> "idle"]
  /\ attempt = [r \in Runs |-> 0]
  /\ existingPR = [r \in Runs |-> NoPR]
  /\ headRef = [r \in Runs |-> <<>>]
  /\ fileSha = [r \in Runs |-> NoSha]
  /\ branchName = [r \in Runs |-> <<>>]
  /\ refSha = [r \in Runs |-> NoFile]
  /\ calls = [r \in Runs |-> <<>>]
  /\ log = [r \in Runs |-> <<>>]
  /\ rejected = [r \in Runs |-> NoError]

\* No repository is configured.
PrIdle ==
  /\ pulls = <<>>
  /\ branches = (BaseBranch :> NoFile)
  /\ nextNumber = 1
  /\ now = StartTime
  /\ enforceSha = FALSE
  /\ failures = 0
  /\ envOps = 0
  /\ pc = [r \in Runs |-> "stopped"]
  /\ attempt = [r \in Runs |-> 0]
  /\ existingPR = [r \in Runs |-> NoPR]
  /\ headRef = [r \in Runs |-> <<>>]
  /\ fileSha = [r \in Runs |-> NoSha]
  /\ branchName = [r \in Runs |-> <<>>]
  /\ refSha = [r \in Runs |-> NoFile]
  /\ calls = [r \in Runs |-> <<>>]
  /\ log = [r \in Runs |-> <<>>]
  /\ rejected = [r \in Runs |-> NoError]

\* What a run keeps from one invocation to the next: nothing.
Locals(r) ==
  /\ existingPR' = [existingPR EXCEPT ![r] = NoPR]
  /\ headRef' = [headRef EXCEPT ![r] = <<>>]
  /\ fileSha' = [fileSha EXCEPT ![r] = NoSha]
  /\ branchName' = [branchName EXCEPT ![r] = <<>>]
  /\ refSha' = [refSha EXCEPT ![r] = NoFile]
  /\ calls' = [calls EXCEPT ![r] = <<>>]
  /\ log' = [log EXCEPT ![r] = <<>>]
  /\ rejected' = [rejected EXCEPT ![r] = NoError]

\* The webhook handler starts the pipeline for a CMS event.
InvokePipeline(r) ==
  /\ pc[r] = "idle"
  /\ pc' = [pc EXCEPT ![r] = "find"]
  /\ attempt' = [attempt EXCEPT ![r] = 1]
  /\ UNCHANGED <<existingPR, headRef, fileSha, branchName, refSha, calls, log,
                 rejected>>
  /\ UNCHANGED <<hostVars, outsidePR>>

\* The caller invokes the pipeline again after it failed.
ReinvokePipeline(r) ==
  /\ pc[r] = "failed"
  /\ attempt[r] < MaxAttempts
  /\ pc' = [pc EXCEPT ![r] = "find"]
  /\ attempt' = [attempt EXCEPT ![r] = @ + 1]
  /\ Locals(r)
  /\ UNCHANGED <<hostVars, outsidePR>>

\* The call was issued and answered with an outcome.
Issued(r, call) ==
  /\ calls' = [calls EXCEPT ![r] = Append(@, call)]
  /\ failures' = IF call.outcome = "error" THEN failures + 1 ELSE failures

\* The outer catch of the three operations: log the error and rethrow it.
Rethrow(r, call, key) ==
  /\ Issued(r, call)
  /\ log' = [log EXCEPT ![r] = Append(@, LogEntry("error", key))]
  /\ rejected' = [rejected EXCEPT ![r] = Error(call.op, call.outcome)]
  /\ pc' = [pc EXCEPT ![r] = "failed"]

FindExistingPR(r) ==
  /\ pc[r] = "find"
  /\ \E outcome \in Outcomes :
       LET call == Call("pulls.list", <<>>, NoSha, "", outcome)
           found == FindFirst(ListPulls(pulls, PerPage))
       IN IF outcome = "ok"
          THEN /\ Issued(r, call)
               /\ existingPR' = [existingPR EXCEPT ![r] = found]
               /\ log' = [log EXCEPT ![r] = Append(@, LogEntry("info",
                    IF found # NoPR THEN "cms.integrations.github.pr.found"
                    ELSE "cms.integrations.github.pr.notFound"))]
               /\ pc' = [pc EXCEPT ![r] = "dispatch"]
               /\ UNCHANGED rejected
          ELSE /\ Rethrow(r, call, "cms.integrations.github.pr.search.error")
               /\ UNCHANGED existingPR
  /\ UNCHANGED <<attempt, headRef, fileSha, branchName, refSha>>
  /\ UNCHANGED <<pulls, branches, nextNumber, now, enforceSha, envOps>>
  /\ UNCHANGED outsidePR

\* The pipeline: updateExistingPR if a pull request was found, otherwise
\* createGitHubPR.
Dispatch(r) ==
  /\ pc[r] = "dispatch"
  /\ pc' = [pc EXCEPT ![r] =
              IF existingPR[r] # NoPR THEN "updGetPR" ELSE "crtGetRef"]
  /\ UNCHANGED <<attempt, existingPR, headRef, fileSha, branchName, refSha,
                 calls, log, rejected>>
  /\ UNCHANGED <<hostVars, outsidePR>>

\* The file the host holds on a branch.
FileOn(branch) ==
  IF branch \in DOMAIN branches THEN branches[branch] ELSE NoFile

\* The answer of repos.getContent({ ref }).
ContentOutcome(outcome, ref) ==
  IF outcome = "ok" /\ ~FileOn(ref).exists THEN "notFound" ELSE outcome

\* The inner try/catch around repos.getContent: the sha of the file, or
\* nothing and an info entry whenever the call threw.
GetContent(r, ref, key) ==
  \E outcome \in Outcomes :
     LET answer == ContentOutcome(outcome, ref)
     IN /\ Issued(r, Call("repos.getContent", ref, NoSha, "", answer))
        /\ IF answer = "ok"
           THEN /\ fileSha' = [fileSha EXCEPT ![r] = FileOn(ref).sha]
                /\ UNCHANGED log
           ELSE /\ UNCHANGED fileSha
                /\ log' = [log EXCEPT ![r] = Append(@, LogEntry("info", key))]

\* A host that accepts every write, whatever the sha sent.
WriteOutcome_NeverConflict(outcome, branch, sha) == outcome

\* The answer of repos.createOrUpdateFileContents({ branch, sha }).
WriteOutcome(outcome, branch, sha) ==
  IF outcome = "ok" /\ ~WriteAccepted(branch, sha) THEN "conflict"
  ELSE outcome

UpdGetPR(r) ==
  /\ pc[r] = "updGetPR"
  /\ \E outcome \in Outcomes :
       LET call == Call("pulls.get", <<existingPR[r]>>, NoSha, "", outcome)
       IN IF outcome = "ok"
          THEN /\ Issued(r, call)
               /\ headRef' =
                    [headRef EXCEPT ![r] = GetPull(pulls, existingPR[r]).head]
               /\ pc' = [pc EXCEPT ![r] = "updGetContent"]
               /\ UNCHANGED <<log, rejected>>
          ELSE /\ Rethrow(r, call, "cms.integrations.github.pr.update.error")
               /\ UNCHANGED headRef
  /\ UNCHANGED <<attempt, existingPR, fileSha, branchName, refSha>>
  /\ UNCHANGED <<pulls, branches, nextNumber, now, enforceSha, envOps>>
  /\ UNCHANGED outsidePR

UpdGetContent(r) ==
  /\ pc[r] = "updGetContent"
  /\ GetContent(r, headRef[r], "cms.integrations.github.pr.fileNotFound")
  /\ pc' = [pc EXCEPT ![r] = "updWrite"]
  /\ UNCHANGED <<attempt, existingPR, headRef, branchName, refSha, rejected>>
  /\ UNCHANGED <<pulls, branches, nextNumber, now, enforceSha, envOps>>
  /\ UNCHANGED outsidePR

UpdWrite(r) ==
  /\ pc[r] = "updWrite"
  /\ \E outcome \in Outcomes :
       LET commitMessage == IF fileSha[r] # NoSha THEN M_update ELSE M_add
           answer == WriteOutcome(outcome, headRef[r], fileSha[r])
           call == Call("repos.createOrUpdateFileContents", headRef[r],
                        fileSha[r], commitMessage, answer)
       IN IF answer = "ok"
          THEN /\ Issued(r, call)
               /\ branches' = [branches EXCEPT ![headRef[r]] = File(FtlOf(r))]
               /\ log' = [log EXCEPT ![r] = Append(@, LogEntry("info",
                            "cms.integrations.github.pr.updated"))]
               /\ pc' = [pc EXCEPT ![r] = "done"]
               /\ UNCHANGED rejected
          ELSE /\ Rethrow(r, call, "cms.integrations.github.pr.update.error")
               /\ UNCHANGED branches
  /\ UNCHANGED <<attempt, existingPR, headRef, fileSha, branchName, refSha>>
  /\ UNCHANGED <<pulls, nextNumber, now, enforceSha, envOps>>
  /\ UNCHANGED outsidePR

CrtGetRef(r) ==
  /\ pc[r] = "crtGetRef"
  /\ branchName' = [branchName EXCEPT ![r] = BranchName(now)]
  /\ \E outcome \in Outcomes :
       LET call == Call("git.getRef", BaseBranch, NoSha, "", outcome)
       IN IF outcome = "ok"
          THEN /\ Issued(r, call)
               /\ refSha' = [refSha EXCEPT ![r] = branches[BaseBranch]]
               /\ pc' = [pc EXCEPT ![r] = "crtCreateRef"]
               /\ UNCHANGED <<log, rejected>>
          ELSE /\ Rethrow(r, call, "cms.integrations.github.pr.create.error")
               /\ UNCHANGED refSha
  /\ UNCHANGED <<attempt, existingPR, headRef, fileSha>>
  /\ UNCHANGED <<pulls, branches, nextNumber, now, enforceSha, envOps>>
  /\ UNCHANGED outsidePR

CrtCreateRef(r) ==
  /\ pc[r] = "crtCreateRef"
  /\ \E outcome \in Outcomes :
       LET answer == IF outcome = "ok" /\ branchName[r] \in DOMAIN branches
                     THEN "conflict" ELSE outcome
           call == Call("git.createRef", branchName[r], NoSha, "", answer)
       IN IF answer = "ok"
          THEN /\ Issued(r, call)
               /\ branches' = branches @@ (branchName[r] :> refSha[r])
               /\ pc' = [pc EXCEPT ![r] = "crtGetContent"]
               /\ UNCHANGED <<log, rejected>>
          ELSE /\ Rethrow(r, call, "cms.integrations.github.pr.create.error")
               /\ UNCHANGED branches
  /\ UNCHANGED <<attempt, existingPR, headRef, fileSha, branchName, refSha>>
  /\ UNCHANGED <<pulls, nextNumber, now, enforceSha, envOps>>
  /\ UNCHANGED outsidePR

CrtGetContent(r) ==
  /\ pc[r] = "crtGetContent"
  /\ GetContent(r, BaseBranch, "cms.integrations.github.pr.fileNotFoundInBase")
  /\ pc' = [pc EXCEPT ![r] = "crtWrite"]
  /\ UNCHANGED <<attempt, existingPR, headRef, branchName, refSha, rejected>>
  /\ UNCHANGED <<pulls, branches, nextNumber, now, enforceSha, envOps>>
  /\ UNCHANGED outsidePR

CrtWrite(r) ==
  /\ pc[r] = "crtWrite"
  /\ \E outcome \in Outcomes :
       LET answer == WriteOutcome(outcome, branchName[r], fileSha[r])
           call == Call("repos.createOrUpdateFileContents", branchName[r],
                        fileSha[r], M_add, answer)
       IN IF answer = "ok"
          THEN /\ Issued(r, call)
               /\ branches' = [branches EXCEPT ![branchName[r]] = File(FtlOf(r))]
               /\ pc' = [pc EXCEPT ![r] = "crtCreatePR"]
               /\ UNCHANGED <<log, rejected>>
          ELSE /\ Rethrow(r, call, "cms.integrations.github.pr.create.error")
               /\ UNCHANGED branches
  /\ UNCHANGED <<attempt, existingPR, headRef, fileSha, branchName, refSha>>
  /\ UNCHANGED <<pulls, nextNumber, now, enforceSha, envOps>>
  /\ UNCHANGED outsidePR

CrtCreatePR(r) ==
  /\ pc[r] = "crtCreatePR"
  /\ \E outcome \in Outcomes :
       LET call == Call("pulls.create", branchName[r], NoSha, "", outcome)
       IN IF outcome = "ok"
          THEN /\ Issued(r, call)
               /\ pulls' =
                    <<PullRequest(nextNumber, T_created, branchName[r])>>
                      \o pulls
               /\ nextNumber' = nextNumber + 1
               /\ log' = [log EXCEPT ![r] = Append(@, LogEntry("info",
                            "cms.integrations.github.pr.created"))]
               /\ pc' = [pc EXCEPT ![r] = "done"]
               /\ UNCHANGED rejected
          ELSE /\ Rethrow(r, call, "cms.integrations.github.pr.create.error")
               /\ UNCHANGED <<pulls, nextNumber>>
  /\ UNCHANGED <<attempt, existingPR, headRef, fileSha, branchName, refSha>>
  /\ UNCHANGED <<branches, now, enforceSha, envOps>>
  /\ UNCHANGED outsidePR

\* A millisecond passes.
Tick ==
  /\ now < StartTime + MaxTicks
  /\ now' = now + 1
  /\ UNCHANGED <<pulls, branches, nextNumber, enforceSha, failures, envOps>>
  /\ UNCHANGED <<runVars, outsidePR>>

\* Other contributors open pull requests about something else.
OpenOtherPullRequests ==
  /\ envOps < MaxEnvOps
  /\ \E k \in {1, PerPage} :
       /\ pulls' =
            [i \in 1..k |->
               PullRequest(nextNumber + k - i, T_other, OtherBranch)]
              \o pulls
       /\ nextNumber' = nextNumber + k
  /\ envOps' = envOps + 1
  /\ UNCHANGED <<branches, now, enforceSha, failures>>
  /\ UNCHANGED <<runVars, outsidePR>>

\* A maintainer merges an open localization pull request into the base
\* branch, which closes it.
MergePullRequest ==
  /\ envOps < MaxEnvOps
  /\ \E i \in 1..Len(pulls) :
       /\ pulls[i].state = "open"
       /\ pulls[i].head # OtherBranch
       /\ FileOn(pulls[i].head).exists
       /\ pulls' = [pulls EXCEPT ![i].state = "closed"]
       /\ branches' = [branches EXCEPT ![BaseBranch] = branches[pulls[i].head]]
  /\ envOps' = envOps + 1
  /\ UNCHANGED <<nextNumber, now, enforceSha, failures>>
  /\ UNCHANGED <<runVars, outsidePR>>

PrNext ==
  \/ \E r \in Runs :
       \/ InvokePipeline(r)
       \/ ReinvokePipeline(r)
       \/ FindExistingPR(r)
       \/ Dispatch(r)
       \/ UpdGetPR(r)
       \/ UpdGetContent(r)
       \/ UpdWrite(r)
       \/ CrtGetRef(r)
       \/ CrtCreateRef(r)
       \/ CrtGetContent(r)
       \/ CrtWrite(r)
       \/ CrtCreatePR(r)
  \/ Tick
  \/ OpenOtherPullRequests
  \/ MergePullRequest

(***************************************************************************)
(* The merger                                                              *)
(***************************************************************************)

\* The keys mergeCmsWithLocalization never takes from the localized data.
PreservedMetadata == {K_clientId, K_entrypoint, K_name, K_l10nId}

\* Object.entries(value) of an object or an array (whose keys are its
\* indices).
Entries(value) ==
  IF value.t = "array"
  THEN [i \in 1..Len(value.items) |-> KV(Decimal(i - 1), value.items[i])]
  ELSE value.kv

\* The inner loop: every string field of the localized component is
\* assigned to the merged component.  Creating a property on a primitive
\* is a TypeError in strict mode.
RECURSIVE MergeFields(_, _)
MergeFields(component, fields) ==
  IF fields = <<>> \/ component = TypeError THEN component
  ELSE MergeFields(IF Head(fields).v.t # "string" THEN component
                   ELSE IF component.t # "object" THEN TypeError
                   ELSE SetKey(component, Head(fields).k, Head(fields).v),
                   Tail(fields))

\* The outer loop over the entries of the localized data.
RECURSIVE MergeComponents(_, _)
MergeComponents(merged, components) ==
  IF components = <<>> \/ merged = TypeError THEN merged
  ELSE LET componentName == Head(components).k
           componentData == Head(components).v
           initialized ==
             IF Truthy(Get(merged, componentName)) THEN merged
             ELSE SetKey(merged, componentName, Obj(<<>>))
           fields == MergeFields(Get(initialized, componentName),
                                 Entries(componentData))
       IN MergeComponents(
            IF componentName \in PreservedMetadata THEN merged
            ELSE IF componentData.t \notin {"object", "array"} THEN merged
            ELSE IF fields = TypeError THEN TypeError
            ELSE SetKey(initialized, componentName, fields),
            Tail(components))

mergeCmsWithLocalization(baseData, localizedData) ==
  IF ~Truthy(baseData) THEN localizedData
  ELSE IF ~Truthy(localizedData) THEN baseData
  ELSE MergeComponents(baseData, Entries(localizedData))

\* What the loops do to the object passed as baseData.  merged is a shallow
\* copy ({ ...baseData }), so a component that base already has is the same
\* object in both, and the fields assigned to merged[componentName] are
\* assigned to it; a component the copy initializes with {} is not shared.
\* The loop ends where an assignment throws.
RECURSIVE MutateBase(_, _)
MutateBase(baseData, components) ==
  IF components = <<>> THEN baseData
  ELSE LET componentName == Head(components).k
           componentData == Head(components).v
           shared == Get(baseData, componentName)
           fields == MergeFields(shared, Entries(componentData))
       IN IF \/ componentName \in PreservedMetadata
             \/ componentData.t \notin {"object", "array"}
             \/ ~Truthy(shared)
          THEN MutateBase(baseData, Tail(components))
          ELSE IF fields = TypeError THEN baseData
          ELSE MutateBase(SetKey(baseData, componentName, fields),
                          Tail(components))

\* The object passed as baseData, as it is after the call.
BaseAfterMerge(baseData, localizedData) ==
  IF ~Truthy(baseData) \/ ~Truthy(localizedData) THEN baseData
  ELSE MutateBase(baseData, Entries(localizedData))

(***************************************************************************)
(* Functions called on their own, each on arguments drawn from a bounded   *)
(* set.                                                                    *)
(***************************************************************************)

\* No function has been called.
FnIdle ==
  /\ fn = ""
  /\ args = <<>>
  /\ ret = <<>>
  /\ after = <<>>

MaxLen == 3   \* characters in a string given to sanitizeContent

\* Characters of every kind sanitizeContent treats differently: a letter,
\* white space, a precomposed letter, combining marks inside and outside
\* U+0300..U+036F, a control character, zero-width characters and an
\* isolate.
SanitizeAlphabet ==
  {"a", " ", "U+00E9", "U+0301", "U+0591", "U+0592", "U+0007", "U+200B",
   "U+FEFF", "U+2066"}

SanitizeInputs == UNION { [1..n -> SanitizeAlphabet] : n \in 0..MaxLen }

SanitizeContent ==
  /\ fn = ""
  /\ \E content \in SanitizeInputs :
       /\ args' = <<content>>
       /\ ret' = sanitizeContent(content)
  /\ fn' = "sanitizeContent"
  /\ after' = args'
  /\ UNCHANGED outsideFn

\* What a base entry may hold under "headline": nothing, null, a component,
\* or a plain attribute (a string, an empty string, a number).
BaseComponents ==
  {Undefined, Null, Str(V_Hi), Str(<<>>), Num,
   Obj(<<KV(K_text, Str(V_Hi))>>),
   Obj(<<KV(K_text, Str(V_Hi)), KV(K_label, Str(V_Yes))>>)}

MergeBases ==
  {Null} \cup
  { Obj(BaseData(L_signin).kv \o
        (IF c = Undefined THEN <<>> ELSE <<KV(K_headline, c)>>)) :
      c \in BaseComponents }

\* What the localized data may hold under "headline".
LocalizedComponents ==
  {Undefined, Null, Str(V_Bob), Num, Arr(<<Str(V_Bob)>>),
   Obj(<<KV(K_text, Str(V_Bob))>>),
   Obj(<<KV(K_text, Num)>>),
   Obj(<<KV(K_text, Obj(<<KV(K_first, Str(V_Bob))>>))>>),
   Obj(<<KV(K_text, Str(V_Bob)), KV(K_count, Num), KV(K_label, Null)>>)}

\* The metadata keys the localized data may carry.
LocalizedMetadata ==
  {<<>>,
   <<KV(K_l10nId, Str(L_signup))>>,
   <<KV(K_name, Str(V_Bob)),
     KV(K_clientId, Obj(<<KV(K_text, Str(V_Bob))>>))>>}

MergeOverlays ==
  {Null} \cup
  { Obj(metadata \o
        (IF c = Undefined THEN <<>> ELSE <<KV(K_headline, c)>>) \o button) :
      metadata \in LocalizedMetadata, c \in LocalizedComponents,
      button \in {<<>>, <<KV(K_button,
                             Obj(<<KV(K_label, Str(V_continue))>>))>>} }

MergeCmsWithLocalization ==
  /\ fn = ""
  /\ \E baseData \in MergeBases, localizedData \in MergeOverlays :
       /\ args' = <<baseData, localizedData>>
       /\ ret' = mergeCmsWithLocalization(baseData, localizedData)
       /\ after' = <<BaseAfterMerge(baseData, localizedData), localizedData>>
  /\ fn' = "mergeCmsWithLocalization"
  /\ UNCHANGED outsideFn

MaxLines == 2   \* data lines in a file given to convertFtlToStrapiFormat

P_headlineText == <<"h", "e", "a", "d", "l", "i", "n", "e", ".", "t", "e", "x", "t">>
P_buttonLabel == <<"b", "u", "t", "t", "o", "n", ".", "l", "a", "b", "e", "l">>

\* The resource entries a given file is written from: l10nIds without and
\* with a dash, one of them a dash-prefix of another, and values without and
\* with characters that need an escape.
GivenEntries ==
  [l10nId : TargetL10nIds, fieldPath : {P_headlineText, P_buttonLabel},
   value : {V_Hi, V_quotes, V_newline, V_carriageReturn}]

GivenEntryLists == UNION { [1..n -> GivenEntries] : n \in 1..MaxLines }

\* A value as the file format carries it between double quotes.
RECURSIVE Escape(_)
Escape(value) ==
  IF value = <<>> THEN <<>>
  ELSE (CASE Head(value) = "\"" -> <<"\\", "\"">>
          [] Head(value) = "\n" -> <<"\\", "n">>
          [] Head(value) = "\r" -> <<"\\", "r">>
          [] OTHER -> <<Head(value)>>) \o Escape(Tail(value))

\* The data line of the file format for an entry: identifier = "value".
QuotedLine(entry) ==
  generateFtlIdWithL10nId(entry.l10nId, entry.fieldPath, entry.value)
    \o S_equals \o <<"\"">> \o Escape(entry.value) \o <<"\"">>

\* A file of the format the parser reads, one data line for each entry.
FileOf(entries) ==
  Join([i \in 1..Len(entries) |-> QuotedLine(entries[i])], <<"\n">>)

ConvertGivenFile ==
  /\ fn = ""
  /\ \E l10nId \in TargetL10nIds, entries \in GivenEntryLists :
       /\ args' = <<l10nId, FileOf(entries), BaseData(l10nId)>>
       /\ ret' = convertFtlToStrapiFormat(l10nId, FileOf(entries),
                                          BaseData(l10nId))
  /\ fn' = "convertFtlToStrapiFormat"
  /\ after' = args'
  /\ UNCHANGED outsideFn

MaxSegments == 5   \* dash-separated segments of a hand-written identifier

P_pageHeadlineText == K_page \o <<".">> \o P_headlineText

\* Field paths of one, two and three segments.
GivenPaths == {K_headline, P_headlineText, P_buttonLabel, P_pageHeadlineText}

\* Identifiers given to parseFtlIdToFieldPath: those generateFtlIdWithL10nId
\* makes, and identifiers of one to MaxSegments segments, empty segments
\* included.
GivenIds ==
  { generateFtlIdWithL10nId(l10nId, fieldPath, value) :
      l10nId \in TargetL10nIds, fieldPath \in GivenPaths,
      value \in {V_Hi, V_Yes} }
  \cup
  { Join(segments, <<"-">>) :
      segments \in UNION { [1..n -> {L_signin, K_text, <<>>}] :
                             n \in 1..MaxSegments } }

ParseFtlIdToFieldPath ==
  /\ fn = ""
  /\ \E ftlId \in GivenIds :
       /\ args' = <<ftlId>>
       /\ ret' = parseFtlIdToFieldPath(ftlId)
  /\ fn' = "parseFtlIdToFieldPath"
  /\ after' = args'
  /\ UNCHANGED outsideFn

\* validateGitHubConfig on a configuration, the host answering the
\* repository-access call, if it is issued, with outcome.  The result names
\* the calls issued, the log entries written and the error thrown, if any.
validateGitHubConfig_OwnerUnchecked(github, outcome) ==
  IF ~Truthy(github.token)
  THEN [calls |-> <<>>, log |-> <<>>,
        thrown |-> "GitHub token is required for Strapi webhook"]
  ELSE IF outcome = "ok"
  THEN [calls |-> <<"repos.get">>,
        log |-> <<LogEntry("info", "cms.integrations.github.config.validated")>>,
        thrown |-> ""]
  ELSE [calls |-> <<"repos.get">>,
        log |-> <<LogEntry("error",
                           "cms.integrations.github.config.validation.failed")>>,
        thrown |-> outcome]

validateGitHubConfig(github, outcome) ==
  IF ~Truthy(github.token)
  THEN [calls |-> <<>>, log |-> <<>>,
        thrown |-> "GitHub token is required for Strapi webhook"]
  ELSE IF ~Truthy(github.owner) \/ ~Truthy(github.repo)
  THEN [calls |-> <<>>, log |-> <<>>,
        thrown |-> "GitHub owner and repo are required for Strapi webhook"]
  ELSE IF outcome = "ok"
  THEN [calls |-> <<"repos.get">>,
        log |-> <<LogEntry("info", "cms.integrations.github.config.validated")>>,
        thrown |-> ""]
  ELSE [calls |-> <<"repos.get">>,
        log |-> <<LogEntry("error",
                           "cms.integrations.github.config.validation.failed")>>,
        thrown |-> outcome]

\* A configuration value that is set, empty or absent.
ConfigValues == {Str(V_clientId), Str(<<>>), Undefined}

GitHubConfigs == [token : ConfigValues, owner : ConfigValues, repo : ConfigValues]

ValidateGitHubConfig ==
  /\ fn = ""
  /\ \E github \in GitHubConfigs, outcome \in {"ok", "notFound", "error"} :
       /\ args' = <<github, outcome>>
       /\ ret' = validateGitHubConfig(github, outcome)
  /\ fn' = "validateGitHubConfig"
  /\ after' = args'
  /\ UNCHANGED outsideFn

\* The call is over.  The functions keep nothing between calls, so the next
\* call starts from the same state.
Return ==
  /\ fn # ""
  /\ fn' = ""
  /\ args' = <<>>
  /\ ret' = <<>>
  /\ after' = <<>>
  /\ UNCHANGED outsideFn

FnNext ==
  \/ SanitizeContent
  \/ MergeCmsWithLocalization
  \/ ConvertGivenFile
  \/ ParseFtlIdToFieldPath
  \/ ValidateGitHubConfig
  \/ Return

(***************************************************************************)
(* account-cache.ts: the accounts kept in the browser's local storage, and *)
(* Session.destroy(), which clears the signed-in account                   *)
(***************************************************************************)

U_1 == <<"u", "1">>
U_2 == <<"u", "2">>
E_mail == <<"a", "@", "b">>
T_1 == <<"t", "1">>
T_2 == <<"t", "2">>

Uids == {U_1, U_2}

\* A StoredAccountData; the fields after email stand behind sessionToken.
Account(uid, email, sessionToken) ==
  [uid |-> uid, email |-> email, sessionToken |-> sessionToken]

\* What a caller may pass for uid and email: a string, an empty string,
\* nothing, or a value of another type.
GivenUids == {Str(U_1), Str(U_2), Str(<<>>), Undefined, Num}

GivenEmails == {Str(E_mail), Str(<<>>), Undefined, Num}

GivenAccounts ==
  {Account(u, e, Str(t)) : u \in GivenUids, e \in GivenEmails, t \in {T_1, T_2}}

\* 'accounts' is absent from local storage, or holds {}.
NoAccounts == [x \in {} |-> Undefined]

\* accounts[key] = account
Assign(accts, key, account) ==
  [x \in DOMAIN accts \cup {key} |-> IF x = key THEN account ELSE accts[x]]

\* delete accounts[key]
Delete(accts, key) == [x \in DOMAIN accts \ {key} |-> accts[x]]

\* isValidAccount without the test of the email.
isValidAccount_UidOnly(account) ==
  ~((account.uid.t # "string") \/ ~Truthy(account.uid))

isValidAccount(account) ==
  IF (account.uid.t # "string") \/ ~Truthy(account.uid) THEN FALSE
  ELSE IF (account.email.t # "string") \/ ~Truthy(account.email) THEN FALSE
  ELSE TRUE

\* What local storage holds when the page is loaded: nothing, what this
\* module wrote earlier, or what other code left there (an account without
\* email, an account under a key that is not its uid).
StoredAtLoad ==
  { NoAccounts,
    Assign(NoAccounts, U_1, Account(Str(U_1), Str(E_mail), Str(T_1))),
    Assign(NoAccounts, U_1, Account(Str(U_1), Undefined, Str(T_1))),
    Assign(NoAccounts, U_1, Account(Str(U_2), Str(E_mail), Str(T_1))),
    Assign(Assign(NoAccounts, U_1, Account(Str(U_1), Str(E_mail), Str(T_1))),
           U_2, Account(Str(U_2), Str(<<>>), Str(T_2))) }

CacheInit ==
  /\ accounts \in StoredAtLoad
  /\ storedAtStart = accounts
  /\ currentAccountUid = Undefined
  /\ cacheOp = ""
  /\ cacheThrown = ""
  /\ sessionPc = "idle"

\* The page has not been loaded.
CacheIdle ==
  /\ accounts = NoAccounts
  /\ storedAtStart = NoAccounts
  /\ currentAccountUid = Undefined
  /\ cacheOp = ""
  /\ cacheThrown = ""
  /\ sessionPc = "idle"

\* setAccount stores a valid account under its uid and throws for any other.
SetAccount ==
  /\ \E account \in GivenAccounts :
       IF ~isValidAccount(account)
       THEN /\ cacheThrown' = "InvalidCachedAccountState"
            /\ accounts' = accounts
       ELSE /\ cacheThrown' = ""
            /\ accounts' = Assign(accounts, account.uid.s, account)
  /\ cacheOp' = "setAccount"
  /\ UNCHANGED <<currentAccountUid, storedAtStart, sessionPc, outsideCache>>

\* The stored accounts without the one under account.uid.
removeAccount(accts, account) ==
  IF account.uid.s \in DOMAIN accts
  THEN Delete(accts, account.uid.s)
  ELSE accts

RemoveAccount ==
  /\ \E uid \in Uids :
       accounts' = removeAccount(accounts, [uid |-> Str(uid)])
  /\ cacheOp' = "removeAccount"
  /\ cacheThrown' = ""
  /\ UNCHANGED <<currentAccountUid, storedAtStart, sessionPc, outsideCache>>

\* getAccounts()[uid] || null
findAccountByUid(accts, uid) ==
  IF uid \in DOMAIN accts THEN accts[uid] ELSE Null

\* setCurrentAccount: setAccount, then the uid is stored; a throw of
\* setAccount ends the call before the uid is stored.
SetCurrentAccount ==
  /\ \E account \in GivenAccounts :
       IF ~isValidAccount(account)
       THEN /\ cacheThrown' = "InvalidCachedAccountState"
            /\ accounts' = accounts
            /\ currentAccountUid' = currentAccountUid
       ELSE /\ cacheThrown' = ""
            /\ accounts' = Assign(accounts, account.uid.s, account)
            /\ currentAccountUid' = account.uid
  /\ cacheOp' = "setCurrentAccount"
  /\ UNCHANGED <<storedAtStart, sessionPc, outsideCache>>

getCurrentAccount(accts, uid) ==
  IF Truthy(uid) THEN findAccountByUid(accts, uid.s) ELSE Null

UnsetCurrentAccount ==
  /\ currentAccountUid' = Undefined
  /\ cacheOp' = "unsetCurrentAccount"
  /\ cacheThrown' = ""
  /\ UNCHANGED <<accounts, storedAtStart, sessionPc, outsideCache>>

\* The body of clearSignedInAccountUid: the current uid and its account are
\* removed when getCurrentAccount() finds the account, nothing otherwise.
clearSignedInAccountUid ==
  LET account == getCurrentAccount(accounts, currentAccountUid) IN
    IF account # Null
    THEN /\ currentAccountUid' = Undefined
         /\ accounts' = removeAccount(accounts, account)
    ELSE /\ currentAccountUid' = currentAccountUid
         /\ accounts' = accounts

ClearSignedInAccountUid ==
  /\ clearSignedInAccountUid
  /\ cacheOp' = "clearSignedInAccountUid"
  /\ cacheThrown' = ""
  /\ UNCHANGED <<storedAtStart, sessionPc, outsideCache>>

\* purgeInvalidAccounts works on the object getAccounts() returned and never
\* writes it back, so local storage keeps what it held.  The value is the
\* exception the loop ends with, "" if it ends normally: after
\* `delete accounts[x]` for an invalid account, `accounts[x].uid` reads a
\* property of undefined.
purgeInvalidAccounts(accts) ==
  IF \E x \in DOMAIN accts : ~isValidAccount(accts[x])
  THEN "TypeError"
  ELSE ""

PurgeInvalidAccounts ==
  /\ cacheThrown' = purgeInvalidAccounts(accounts)
  /\ cacheOp' = "purgeInvalidAccounts"
  /\ UNCHANGED <<accounts, currentAccountUid, storedAtStart, sessionPc,
                 outsideCache>>

\* Session.isDestroyed
isDestroyed == getCurrentAccount(accounts, currentAccountUid) = Null

\* Session.destroy() awaits the destroySession mutation: when it fails the
\* call is over with the error, when it succeeds the call goes on to
\* clearSignedInAccountUid.  Other operations may run while it waits.
DestroyMutate ==
  /\ sessionPc = "idle"
  /\ \E ok \in BOOLEAN :
       IF ok
       THEN /\ sessionPc' = "clearing"
            /\ UNCHANGED <<cacheOp, cacheThrown>>
       ELSE /\ sessionPc' = "idle"
            /\ cacheOp' = "Session.destroy"
            /\ cacheThrown' = "ApolloError"
  /\ UNCHANGED <<accounts, currentAccountUid, storedAtStart, outsideCache>>

DestroyClear ==
  /\ sessionPc = "clearing"
  /\ clearSignedInAccountUid
  /\ sessionPc' = "idle"
  /\ cacheOp' = "Session.destroy"
  /\ cacheThrown' = ""
  /\ UNCHANGED <<storedAtStart, outsideCache>>

CacheNext ==
  \/ SetAccount
  \/ RemoveAccount
  \/ SetCurrentAccount
  \/ UnsetCurrentAccount
  \/ ClearSignedInAccountUid
  \/ PurgeInvalidAccounts
  \/ DestroyMutate
  \/ DestroyClear

(***************************************************************************)
(* SubscriptionContent: the resubscribe dialogs of the subscription page   *)
(***************************************************************************)

UiInit ==
  /\ canResubscribe \in BOOLEAN
  /\ showCancel = FALSE
  /\ checkedState = FALSE
  /\ openResubscribeDialog = FALSE
  /\ openResubscribeSuccessDialog = FALSE
  /\ pendingResubscribe = FALSE
  /\ showResubscribeActionError = FALSE
  /\ resubscribePc = "idle"
  /\ actionResult = "none"

\* The component is not mounted.
UiIdle ==
  /\ canResubscribe = FALSE
  /\ showCancel = FALSE
  /\ checkedState = FALSE
  /\ openResubscribeDialog = FALSE
  /\ openResubscribeSuccessDialog = FALSE
  /\ pendingResubscribe = FALSE
  /\ showResubscribeActionError = FALSE
  /\ resubscribePc = "idle"
  /\ actionResult = "none"

\* The dialogs are modal: while one is open the page behind it takes no
\* click.
NoDialogOpen == ~openResubscribeDialog /\ ~openResubscribeSuccessDialog

\* The parent renders the component again with another subscription state.
PropsChange ==
  /\ canResubscribe' = ~canResubscribe
  /\ UNCHANGED <<checkedState, showCancel, openResubscribeDialog,
                 openResubscribeSuccessDialog, pendingResubscribe,
                 showResubscribeActionError, resubscribePc, actionResult,
                 outsideUi>>

\* The Cancel link, rendered when the subscription cannot be resubscribed.
ShowCancel ==
  /\ ~showCancel /\ ~canResubscribe /\ NoDialogOpen
  /\ showCancel' = TRUE
  /\ UNCHANGED <<canResubscribe, checkedState, openResubscribeDialog,
                 openResubscribeSuccessDialog, pendingResubscribe,
                 showResubscribeActionError, resubscribePc, actionResult,
                 outsideUi>>

\* The Stay Subscribed button of the cancel form.
HideCancel ==
  /\ showCancel /\ NoDialogOpen
  /\ showCancel' = FALSE
  /\ UNCHANGED <<canResubscribe, checkedState, openResubscribeDialog,
                 openResubscribeSuccessDialog, pendingResubscribe,
                 showResubscribeActionError, resubscribePc, actionResult,
                 outsideUi>>

\* The checkbox of the cancel form.
SetCheckedState ==
  /\ showCancel /\ NoDialogOpen
  /\ checkedState' = ~checkedState
  /\ UNCHANGED <<canResubscribe, showCancel, openResubscribeDialog,
                 openResubscribeSuccessDialog, pendingResubscribe,
                 showResubscribeActionError, resubscribePc, actionResult,
                 outsideUi>>

\* The Resubscribe button of the page.
OpenResubscribeDialog ==
  /\ ~showCancel /\ canResubscribe /\ NoDialogOpen
  /\ openResubscribeDialog' = TRUE
  /\ UNCHANGED <<canResubscribe, checkedState, showCancel,
                 openResubscribeSuccessDialog, pendingResubscribe,
                 showResubscribeActionError, resubscribePc, actionResult,
                 outsideUi>>

\* Escape, a click outside, or the close button of the resubscribe dialog.
CloseResubscribeDialog ==
  /\ openResubscribeDialog
  /\ openResubscribeDialog' = FALSE
  /\ UNCHANGED <<canResubscribe, checkedState, showCancel,
                 openResubscribeSuccessDialog, pendingResubscribe,
                 showResubscribeActionError, resubscribePc, actionResult,
                 outsideUi>>

\* Escape, a click outside, or a button of the success dialog.
CloseResubscribeSuccessDialog ==
  /\ openResubscribeSuccessDialog
  /\ openResubscribeSuccessDialog' = FALSE
  /\ UNCHANGED <<canResubscribe, checkedState, showCancel,
                 openResubscribeDialog, pendingResubscribe,
                 showResubscribeActionError, resubscribePc, actionResult,
                 outsideUi>>

\* resubscribe() up to its first await.  It is started by the button of the
\* resubscribe dialog; one call runs at a time.
Resubscribe ==
  /\ openResubscribeDialog /\ resubscribePc = "idle"
  /\ pendingResubscribe' = TRUE
  /\ showResubscribeActionError' = FALSE
  /\ resubscribePc' = "action"
  /\ actionResult' = "none"
  /\ UNCHANGED <<canResubscribe, checkedState, showCancel,
                 openResubscribeDialog, openResubscribeSuccessDialog,
                 outsideUi>>

\* The action resolved: resubscribe() goes on to its second await if the
\* result is ok, and to its end otherwise.
ActionResolves ==
  /\ resubscribePc = "action"
  /\ \E ok \in BOOLEAN :
       IF ok
       THEN /\ actionResult' = "ok"
            /\ openResubscribeDialog' = FALSE
            /\ resubscribePc' = "timeout"
            /\ UNCHANGED <<pendingResubscribe, showResubscribeActionError>>
       ELSE /\ actionResult' = "notOk"
            /\ showResubscribeActionError' = TRUE
            /\ pendingResubscribe' = FALSE
            /\ resubscribePc' = "idle"
            /\ UNCHANGED openResubscribeDialog
  /\ UNCHANGED <<canResubscribe, checkedState, showCancel,
                 openResubscribeSuccessDialog, outsideUi>>

\* The action's promise was rejected (the request failed, or the server
\* action threw): the await throws and resubscribe(), which has no catch,
\* ends there.
ActionRejects ==
  /\ resubscribePc = "action"
  /\ actionResult' = "rejected"
  /\ resubscribePc' = "idle"
  /\ UNCHANGED <<canResubscribe, checkedState, showCancel,
                 openResubscribeDialog, openResubscribeSuccessDialog,
                 pendingResubscribe, showResubscribeActionError, outsideUi>>

\* The 500 ms timer fired: resubscribe() runs to its end.
TimeoutFires ==
  /\ resubscribePc = "timeout"
  /\ openResubscribeSuccessDialog' = TRUE
  /\ pendingResubscribe' = FALSE
  /\ resubscribePc' = "idle"
  /\ UNCHANGED <<canResubscribe, checkedState, showCancel,
                 openResubscribeDialog, showResubscribeActionError, actionResult,
                 outsideUi>>

UiNext ==
  \/ PropsChange
  \/ ShowCancel
  \/ HideCancel
  \/ SetCheckedState
  \/ OpenResubscribeDialog
  \/ CloseResubscribeDialog
  \/ CloseResubscribeSuccessDialog
  \/ Resubscribe
  \/ ActionResolves
  \/ ActionRejects
  \/ TimeoutFires

\* The localization pipeline alone.
InitFtl == FtlInit /\ PrIdle /\ FnIdle /\ CacheIdle /\ UiIdle

SpecFtl == InitFtl /\ [][FtlNext]_vars

\* The reconciler alone.
InitPR == FtlIdle /\ PrInit /\ FnIdle /\ CacheIdle /\ UiIdle

SpecPR == InitPR /\ [][PrNext]_vars

\* The functions alone.
InitFn == FtlIdle /\ PrIdle /\ FnIdle /\ CacheIdle /\ UiIdle

SpecFn == InitFn /\ [][FnNext]_vars

\* The account cache and the session alone.
InitCache == FtlIdle /\ PrIdle /\ FnIdle /\ CacheInit /\ UiIdle

SpecCache == InitCache /\ [][CacheNext]_vars

\* The subscription page alone.
InitUi == FtlIdle /\ PrIdle /\ FnIdle /\ CacheIdle /\ UiInit

SpecUi == InitUi /\ [][UiNext]_vars

\* The subscription page when what resubscribe() awaits does end: the action
\* resolves or is rejected, and the timer fires.  Nothing obliges the user
\* to click.
FairSpecUi ==
  /\ SpecUi
  /\ WF_vars(ActionResolves \/ ActionRejects)
  /\ WF_vars(TimeoutFires)

Init == InitFtl \/ InitPR \/ InitFn \/ InitCache \/ InitUi

Next == FtlNext \/ PrNext \/ FnNext \/ CacheNext \/ UiNext

Spec == Init /\ [][Next]_vars

(***************************************************************************)
(* Properties of the pipeline                                              *)
(***************************************************************************)

\* A list element that is an object with a non-empty string l10nId.
HasL10nId(e) ==
  /\ e.t = "object"
  /\ \E i \in 1..Len(e.kv) :
       e.kv[i].k = K_l10nId /\ e.kv[i].v.t = "string" /\ e.kv[i].v.s # <<>>

\* The values found in an object by walking through nested objects only,
\* each with the keys that lead to it.
RECURSIVE Leaves(_, _)
Leaves(obj, keys) ==
  UNION { IF obj.kv[i].v.t = "object"
          THEN Leaves(obj.kv[i].v, Append(keys, obj.kv[i].k))
          ELSE { [keys |-> Append(keys, obj.kv[i].k), v |-> obj.kv[i].v] } :
          i \in 1..Len(obj.kv) }

DottedPath(keys) == Join(keys, <<".">>)

\* A string that is a URL, a date-time or a color.
UrlDateOrColor(s) ==
  \/ StartsWith(s, <<"h", "t", "t", "p", ":", "/", "/">>)
  \/ StartsWith(s, <<"h", "t", "t", "p", "s", ":", "/", "/">>)
  \/ StartsWith(s, <<"/", "/">>)
  \/ /\ Len(s) >= 19
     /\ \A i \in {1, 2, 3, 4, 6, 7, 9, 10, 12, 13, 15, 16, 18, 19} :
          s[i] \in Digit
     /\ s[5] = "-" /\ s[8] = "-" /\ s[11] = "T" /\ s[14] = ":" /\ s[17] = ":"
  \/ StartsWith(s, <<"#">>)
  \/ StartsWith(s, <<"r", "g", "b", "(">>)
  \/ StartsWith(s, <<"r", "g", "b", "a", "(">>)
  \/ \E i \in 1..(Len(s) - 14) :
       SubSeq(s, i, i + 14) =
         <<"l", "i", "n", "e", "a", "r", "-", "g", "r", "a", "d", "i", "e",
           "n", "t">>

\* The values a sequence holds.
Range(seq) == { seq[i] : i \in 1..Len(seq) }

\* C1 (as claimed): after convertFtlToStrapiFormat(L, strapiToFtl(entries),
\* base), result[component][field] is the sanitized value of every field
\* path component.field the extractor produced for an entry with l10nId L.
C1_RoundTrip ==
  phase = "converted" =>
    \A i \in 1..Len(strapiData) :
      (HasL10nId(strapiData[i])
         /\ Get(strapiData[i], K_l10nId).s = targetL10nId) =>
        \A j \in 1..Len(extracted[i]) :
          LET parts == Split(extracted[i][j].k, ".")
          IN Len(parts) = 2 =>
               Get(Get(strapiFormat, parts[1]), parts[2])
                 = Str(sanitizeContent(extracted[i][j].v))

\* C6: list elements without an l10nId (missing, null or empty), and
\* elements that are not objects, contribute nothing to what strapiToFtl
\* returns: the text is the text for the list without them, nothing is
\* extracted from them, and every collected entry carries the l10nId of an
\* element that has one.
C6_SkippedEntriesContributeNothing ==
  phase # "fetched" =>
    /\ \E timestamp \in Timestamps :
         ftlContent = strapiToFtl(SelectSeq(strapiData, HasL10nId), timestamp)
    /\ \A i \in 1..Len(strapiData) :
         ~HasL10nId(strapiData[i]) => extracted[i] = <<>>
    /\ \A k \in 1..Len(allEntries) :
         \E i \in 1..Len(strapiData) :
           /\ HasL10nId(strapiData[i])
           /\ allEntries[k].l10nId = Get(strapiData[i], K_l10nId).s

\* C6 witness: a list with an element that has fields to extract but no
\* l10nId, next to an element that was serialized.
C6_Witness ==
  /\ phase = "generated"
  /\ allEntries # <<>>
  /\ \E i \in 1..Len(strapiData) :
       /\ strapiData[i].t = "object"
       /\ ~HasL10nId(strapiData[i])
       /\ extractStringsFromObject(EntryData(strapiData[i]), <<>>) # <<>>

\* C7: no URL, date-time or color is a value of the extractor's mapping,
\* and the path of such a string, at any depth, is not a key of it.
C7_UrlDateColorExcluded ==
  phase # "fetched" =>
    \A i \in 1..Len(strapiData) :
      /\ \A j \in 1..Len(extracted[i]) : ~UrlDateOrColor(extracted[i][j].v)
      /\ HasL10nId(strapiData[i]) =>
           \A leaf \in Leaves(EntryData(strapiData[i]), <<>>) :
             (leaf.v.t = "string" /\ UrlDateOrColor(leaf.v.s)) =>
               \A j \in 1..Len(extracted[i]) :
                 extracted[i][j].k # DottedPath(leaf.keys)

\* C7 witness: an entry with a URL or color two or more levels down, next
\* to strings that were extracted.
C7_Witness ==
  /\ phase = "generated"
  /\ \E i \in 1..Len(strapiData) :
       /\ extracted[i] # <<>>
       /\ \E leaf \in Leaves(EntryData(strapiData[i]), <<>>) :
            /\ leaf.v.t = "string"
            /\ UrlDateOrColor(leaf.v.s)
            /\ Len(leaf.keys) >= 2

\* The strings the extractor is to keep.
Localizable(leaf) ==
  /\ leaf.v.t = "string"
  /\ Trim(leaf.v.s) # <<>>
  /\ leaf.keys[Len(leaf.keys)] \notin
       {K_id, K_documentId, K_clientId, K_createdAt, K_updatedAt,
        K_publishedAt, K_entrypoint, K_name, K_l10nId}
  /\ ~UrlDateOrColor(leaf.v.s)

\* C8: the extractor's mapping for an entry is exactly the dotted paths,
\* through objects only, of the strings that are non-empty after trimming,
\* not under a metadata key and not a URL, date or color, each mapped to
\* its string (keys are non-empty and hold no '.').
C8_ExtractorExact ==
  phase # "fetched" =>
    \A i \in 1..Len(strapiData) :
      HasL10nId(strapiData[i]) =>
        /\ { <<e.k, e.v>> : e \in Range(extracted[i]) }
             = { <<DottedPath(leaf.keys), leaf.v.s>> :
                   leaf \in { l \in Leaves(EntryData(strapiData[i]), <<>>) :
                                Localizable(l) } }
        /\ \A j, k \in 1..Len(extracted[i]) :
             extracted[i][j].k = extracted[i][k].k => j = k

\* C8 witness: an entry with a string under a metadata key or in an array,
\* and strings that were extracted.
C8_Witness ==
  /\ phase = "generated"
  /\ \E i \in 1..Len(strapiData) :
       /\ extracted[i] # <<>>
       /\ \E leaf \in Leaves(EntryData(strapiData[i]), <<>>) :
            \/ leaf.v.t = "string" /\ leaf.keys[Len(leaf.keys)] = K_name
            \/ leaf.v.t = "array"

HexDigit == Digit \cup {"a", "b", "c", "d", "e", "f"}

\* C9: the identifier of a collected entry is its l10nId, '-', its field
\* path with every '.' replaced by '-', '-', and the first 8 hex characters
\* of the MD5 of its sanitized value; entries with the same l10nId, field
\* path and value have the same identifier.
C9_IdentifierFormat ==
  /\ \A k \in 1..Len(allEntries) :
       LET e == allEntries[k]
           id == e.ftlId
           n == Len(e.l10nId)
           m == Len(e.fieldPath)
       IN /\ Len(id) = n + 1 + m + 1 + 8
          /\ SubSeq(id, 1, n) = e.l10nId
          /\ id[n + 1] = "-"
          /\ \A p \in 1..m :
               id[n + 1 + p] = IF e.fieldPath[p] = "." THEN "-"
                               ELSE e.fieldPath[p]
          /\ id[n + m + 2] = "-"
          /\ \A h \in 1..8 :
               /\ id[n + m + 2 + h] = Md5Hex(e.value)[h]
               /\ id[n + m + 2 + h] \in HexDigit
  /\ \A j, k \in 1..Len(allEntries) :
       (/\ allEntries[j].l10nId = allEntries[k].l10nId
        /\ allEntries[j].fieldPath = allEntries[k].fieldPath
        /\ allEntries[j].value = allEntries[k].value)
         => allEntries[j].ftlId = allEntries[k].ftlId

\* C9 witness: an identifier was generated for a field path with two dots.
C9_Witness ==
  /\ phase = "generated"
  /\ \E k \in 1..Len(allEntries) :
       Len(Split(allEntries[k].fieldPath, ".")) >= 3

\* Two collected entries with the same l10nId and field path.
SameField(a, b) == a.l10nId = b.l10nId /\ a.fieldPath = b.fieldPath

\* C10 (as claimed): for a fixed l10nId and field path, two different
\* sanitized values get different identifiers.
C10_ValueChangeChangesId ==
  \A j, k \in 1..Len(allEntries) :
    (SameField(allEntries[j], allEntries[k])
       /\ allEntries[j].value # allEntries[k].value)
      => allEntries[j].ftlId # allEntries[k].ftlId

\* C10 (amended): for a fixed l10nId and field path, two sanitized values
\* get different identifiers exactly when the first 8 hex characters of
\* their MD5 digests differ.
C10_IdDiffersIffHashPrefixDiffers ==
  \A j, k \in 1..Len(allEntries) :
    SameField(allEntries[j], allEntries[k]) =>
      (allEntries[j].ftlId # allEntries[k].ftlId
         <=> SubSeq(Md5Hex(allEntries[j].value), 1, 8)
               # SubSeq(Md5Hex(allEntries[k].value), 1, 8))

\* C10 witness: two different values of one field with MD5 digests that
\* differ, yet with one identifier.
C10_Witness ==
  /\ phase = "generated"
  /\ \E j, k \in 1..Len(allEntries) :
       /\ SameField(allEntries[j], allEntries[k])
       /\ allEntries[j].value # allEntries[k].value
       /\ Md5Hex(allEntries[j].value) # Md5Hex(allEntries[k].value)
       /\ allEntries[j].ftlId = allEntries[k].ftlId

\* The lines of a text.
LinesOf(text) == Split(text, "\n")

\* A line that carries an identifier and a value, and its identifier.
IsDataLine(line) ==
  line # <<>> /\ Head(line) # "#" /\ Includes(line, S_equals)

LineId(line) ==
  LET k == CHOOSE i \in 1..Len(line) :
             /\ StartsWith(Drop(line, i - 1), S_equals)
             /\ \A j \in 1..(i - 1) : ~StartsWith(Drop(line, j - 1), S_equals)
  IN SubSeq(line, 1, k - 1)

\* The order of (l10nId, fieldPath).
KeyLess(a, b) ==
  \/ (a.l10nId # b.l10nId /\ localeCompare(a.l10nId, b.l10nId) < 0)
  \/ (a.l10nId = b.l10nId /\ localeCompare(a.fieldPath, b.fieldPath) < 0)

\* Of the collected entries with an identifier, the first in the order of
\* (l10nId, fieldPath), and among equals the first collected.
FirstWithId(collected, id) ==
  LET same == { i \in 1..Len(collected) : collected[i].ftlId = id }
  IN collected[CHOOSE i \in same :
                 \A j \in same \ {i} :
                   \/ KeyLess(collected[i], collected[j])
                   \/ (~KeyLess(collected[j], collected[i]) /\ i < j)]

\* C12: in the text strapiToFtl returns, the data lines are in
\* non-decreasing order of (l10nId, fieldPath); every collected identifier is
\* on exactly one data line, which carries the value of the first entry with
\* that identifier in the sorted order; each l10nId with a data line has
\* exactly one group header, before its data lines.
C12_SortedUniqueGrouped ==
  phase \in {"generated", "converted"} =>
    LET collected == CollectEntries(strapiData)
        lines == LinesOf(ftlContent)
        data == { p \in 1..Len(lines) : IsDataLine(lines[p]) }
        kept(p) == FirstWithId(collected, LineId(lines[p]))
    IN /\ \A p \in data :
            \E i \in 1..Len(collected) : collected[i].ftlId = LineId(lines[p])
       /\ \A p, q \in data : p < q => ~KeyLess(kept(q), kept(p))
       /\ \A p, q \in data : p # q => LineId(lines[p]) # LineId(lines[q])
       /\ \A i \in 1..Len(collected) :
            \E p \in data : LineId(lines[p]) = collected[i].ftlId
       /\ \A p \in data :
            lines[p] = LineId(lines[p]) \o S_equals
                         \o Head(LinesOf(kept(p).value))
       /\ \A p \in data :
            LET headers ==
                  { h \in 1..Len(lines) :
                      StartsWith(lines[h],
                                 S_comment \o kept(p).l10nId \o S_dash) }
            IN Cardinality(headers) = 1 /\ \A h \in headers : h < p

\* Two entries of different l10nIds were collected out of order.
C12_Witness ==
  /\ phase = "generated"
  /\ Len(CollectEntries(strapiData)) = 2
  /\ CollectEntries(strapiData) # allEntries
  /\ allEntries[1].l10nId # allEntries[2].l10nId
  /\ Cardinality({ p \in 1..Len(LinesOf(ftlContent)) :
                     IsDataLine(LinesOf(ftlContent)[p]) }) = 2

\* C15: every line of the text returned by strapiToFtl is a blank line, a
\* comment line starting with '#', or a data line identifier = "value"
\* with the value between double quotes and no bare quote inside it, that
\* is, a line the pattern of convertFtlToStrapiFormat accepts.
C15_EveryLineWellFormed ==
  phase \in {"generated", "converted"} =>
    \A i \in 1..Len(LinesOf(ftlContent)) :
      LET line == LinesOf(ftlContent)[i]
      IN \/ Trim(line) = <<>>
         \/ StartsWith(line, S_hash)
         \/ MatchDataLine(Trim(line)).ok

\* C23: every value strapiToFtl writes on a data line is non-empty and is
\* not a URL, a date or a color by the extractor's own predicates.
C23_EmittedValuesPassTheFilter ==
  phase \in {"generated", "converted"} =>
    \A i \in 1..Len(allEntries) :
      /\ isStringValue(Str(allEntries[i].value))
      /\ ~isUrl(Str(allEntries[i].value))
      /\ ~isDate(Str(allEntries[i].value))
      /\ ~isColor(Str(allEntries[i].value))

\* C24: two collected entries have the same identifier only if they have
\* the same l10nId, the same field path and the same value hash, so the
\* removal of duplicates drops no entry whose l10nId or field path differs
\* from those of the entry kept, dashes in l10nIds included.
C24_SameIdOnlyForSameField ==
  \A j, k \in 1..Len(allEntries) :
    allEntries[j].ftlId = allEntries[k].ftlId =>
      /\ SameField(allEntries[j], allEntries[k])
      /\ SubSeq(Md5Hex(allEntries[j].value), 1, HashLength)
           = SubSeq(Md5Hex(allEntries[k].value), 1, HashLength)

(***************************************************************************)
(* Properties of the reconciler                                            *)
(***************************************************************************)

\* A pull request for the localization file, as the pipeline recognizes it.
Recognized(pr) ==
  Includes(pr.title, S_cmsFtl) \/ Includes(pr.title, S_CMSLocalization)

OpenLocalizationPulls ==
  { i \in 1..Len(pulls) : pulls[i].state = "open" /\ Recognized(pulls[i]) }

\* C2 (as claimed): in every interleaving of pipeline runs, with nobody else
\* touching the repository, there is never more than one open pull request
\* for the localization file.
C2_AtMostOneOpenLocalizationPR ==
  envOps = 0 => Cardinality(OpenLocalizationPulls) <= 1

\* C3 (as claimed): whenever an open pull request with a recognized title
\* exists, a run's findExistingPR finds one, the run takes the update path,
\* and no step of updateExistingPR changes the set of branches or the pull
\* requests.
C3_ExistingPRIsUpdated ==
  [][\A r \in Runs :
       /\ ( /\ pc[r] = "find"
            /\ pc'[r] = "dispatch"
            /\ OpenLocalizationPulls # {} )
          => /\ existingPR'[r] # NoPR
             /\ \E i \in OpenLocalizationPulls :
                  pulls[i].number = existingPR'[r]
       /\ (pc[r] = "dispatch" /\ pc'[r] # "dispatch" /\ existingPR[r] # NoPR)
          => pc'[r] = "updGetPR"
       /\ ( /\ pc[r] \in {"updGetPR", "updGetContent", "updWrite"}
            /\ pc'[r] # pc[r] )
          => (DOMAIN branches' = DOMAIN branches /\ pulls' = pulls)
    ]_vars

\* The remote state after one run that succeeded at its first attempt, from
\* a repository with at most one open localization pull request: the base
\* branch and one localization branch, one open localization pull request,
\* and the run's text on that pull request's branch.
SingleRunEndState(r) ==
  /\ Cardinality(DOMAIN branches) = 2
  /\ Cardinality(OpenLocalizationPulls) = 1
  /\ \A i \in OpenLocalizationPulls :
       FileOn(pulls[i].head) = File(FtlOf(r))

\* Run r is the only one that was ever invoked, and nobody else touched the
\* repository.
Alone(r) ==
  /\ envOps = 0
  /\ \A q \in Runs \ {r} : pc[q] = "idle"

\* C4 (as claimed): when a run failed at a remote call, was invoked again and
\* then succeeded, the remote state is that of a single run that succeeded.
C4_ConvergesAfterFailure ==
  \A r \in Runs :
    (Alone(r) /\ attempt[r] > 1 /\ pc[r] = "done") => SingleRunEndState(r)

\* C5 (as claimed): a remote call that fails, other than get-file-content
\* answering file-not-found, is the operation's last call: the operation
\* logs an error and rejects with that error.
C5_FailurePolicy ==
  \A r \in Runs :
    \A i \in 1..Len(calls[r]) :
      LET call == calls[r][i]
      IN ( /\ call.outcome # "ok"
           /\ ~(call.op = "repos.getContent" /\ call.outcome = "notFound") )
         => /\ i = Len(calls[r])
            /\ pc[r] = "failed"
            /\ rejected[r] = Error(call.op, call.outcome)
            /\ log[r] # <<>>
            /\ log[r][Len(log[r])].level = "error"

\* The position in the host's list of the first open pull request with a
\* recognized title.
FirstOpenLocalizationPull ==
  CHOOSE i \in OpenLocalizationPulls : \A j \in OpenLocalizationPulls : i <= j

\* C18: when its list call is answered, findExistingPR returns the first
\* open pull request with a recognized title, in the order the host lists
\* the open pull requests, and null when the repository has none; it fails
\* only when the list call failed.  So the result is not null whenever the
\* repository has such a pull request.
C18_FindReturnsFirstRecognized ==
  [][\A r \in Runs :
       /\ (pc[r] = "find" /\ pc'[r] = "dispatch") =>
            existingPR'[r] =
              IF OpenLocalizationPulls = {} THEN NoPR
              ELSE pulls[FirstOpenLocalizationPull].number
       /\ (pc[r] = "find" /\ pc'[r] = "failed") =>
            rejected'[r] = Error("pulls.list", "error")
    ]_vars

\* The operations of the calls a run has issued since it was invoked.
Ops(r) == [i \in 1..Len(calls[r]) |-> calls[r][i].op]

IsPrefix(s, t) == Len(s) <= Len(t) /\ s = SubSeq(t, 1, Len(s))

\* The calls of findExistingPR followed by those of updateExistingPR.
UpdateOrder ==
  <<"pulls.list", "pulls.get", "repos.getContent",
    "repos.createOrUpdateFileContents">>

\* C19: updateExistingPR issues get-pull-request, then get-file-content on
\* the head branch of the pull request, then one create-or-update-file call
\* on that branch; with nobody else touching the repository, the write
\* carries the sha of the file and the 'Update' message exactly when the
\* file exists on the branch, and no sha and the 'Add' message exactly when
\* it does not.
C19_UpdateWritesWithShaIffFileExists ==
  [][\A r \in Runs :
       /\ existingPR[r] # NoPR => IsPrefix(Ops(r), UpdateOrder)
       /\ (pc[r] = "updWrite" /\ pc'[r] # "updWrite" /\ Alone(r)) =>
            LET head == GetPull(pulls, existingPR[r]).head
                write == calls'[r][Len(calls'[r])]
            IN /\ Len(calls'[r]) = Len(UpdateOrder)
               /\ calls'[r][3].target = head
               /\ write.op = "repos.createOrUpdateFileContents"
               /\ write.target = head
               /\ IF FileOn(head).exists
                  THEN write.sha = FileOn(head).sha /\ write.message = M_update
                  ELSE write.sha = NoSha /\ write.message = M_add
    ]_vars

\* The calls of findExistingPR followed by those of createGitHubPR.
CreateOrder ==
  <<"pulls.list", "git.getRef", "git.createRef", "repos.getContent",
    "repos.createOrUpdateFileContents", "pulls.create">>

\* The call succeeded; get-file-content answering file-not-found is
\* tolerated as the spec's create path says.
Succeeded(call) ==
  \/ call.outcome = "ok"
  \/ call.op = "repos.getContent" /\ call.outcome = "notFound"

\* C20: createGitHubPR issues get-ref on the base branch, create-ref of the
\* new branch, get-file-content on the base branch, the write on the new
\* branch and create-pull-request in this order, each only after the
\* previous one succeeded; the pull request is opened for the new branch,
\* which then holds the written file, and one call opens one pull request
\* at most.
C20_CreateCallsInOrder ==
  [][\A r \in Runs :
       /\ (Len(calls[r]) >= 2 /\ calls[r][2].op = "git.getRef") =>
            /\ IsPrefix(Ops(r), CreateOrder)
            /\ \A i \in 1..(Len(calls[r]) - 1) : Succeeded(calls[r][i])
            /\ calls[r][2].target = BaseBranch
            /\ \A i \in 3..Len(calls[r]) :
                 calls[r][i].target =
                   IF i = 4 THEN BaseBranch ELSE branchName[r]
       /\ (pc[r] = "crtCreatePR" /\ pc'[r] = "done") =>
            /\ FileOn(branchName[r]) = File(FtlOf(r))
            /\ pulls' = <<PullRequest(nextNumber, T_created, branchName[r])>>
                          \o pulls
       /\ (pc[r] # "crtCreatePR" \/ pc'[r] # "done") =>
            \/ pulls' = pulls
            \/ pc'[r] = pc[r]
    ]_vars

\* C21: when updateExistingPR calls for the same pull request interleave,
\* each write that succeeds replaces the file on the branch of the pull
\* request by the complete text of its own call, and nothing but such a
\* write changes that file, so the branch holds the text of the call whose
\* write was issued last; when the host enforces the revision marker, a
\* write whose marker is stale fails with an error and overwrites nothing.
C21_LaterWriteWins ==
  [][/\ \A r \in Runs :
          (pc[r] = "updWrite" /\ pc'[r] # "updWrite") =>
            /\ pc'[r] = "done" =>
                 /\ branches' =
                      [branches EXCEPT ![headRef[r]] = File(FtlOf(r))]
                 /\ enforceSha => fileSha[r] = FileOn(headRef[r]).sha
            /\ pc'[r] # "done" =>
                 /\ branches' = branches
                 /\ pc'[r] = "failed"
                 /\ rejected'[r].op = "repos.createOrUpdateFileContents"
                 /\ rejected'[r].outcome \in {"conflict", "error"}
            /\ (enforceSha /\ fileSha[r] # FileOn(headRef[r]).sha) =>
                 pc'[r] = "failed"
     /\ (\A r \in Runs : pc[r] # "updWrite" \/ pc'[r] = pc[r]) =>
          \A i \in 1..Len(pulls) :
            pulls[i].head \in DOMAIN branches =>
              branches'[pulls[i].head] = branches[pulls[i].head]
    ]_vars

\* Two calls for pull request 1 both read the file before either wrote it,
\* and both completed: the branch holds the text of one of them.
C21_Witness ==
  /\ \A r \in Runs :
       /\ pc[r] = "done"
       /\ existingPR[r] = 1
       /\ fileSha[r] = BlobSha(InitialContent)
  /\ FileOn(InitialBranch) \in {File(FtlOf(r)) : r \in Runs}

(***************************************************************************)
(* Properties of the functions called on their own                         *)
(***************************************************************************)

\* C11 (as claimed): sanitizing an already sanitized string returns it
\* unchanged.
C11_SanitizeIdempotent ==
  fn = "sanitizeContent" => sanitizeContent(ret) = ret

\* data[c][f], undefined when data[c] is not an object or an array.
FieldOf(data, c, f) ==
  IF Get(data, c).t \in {"object", "array"}
  THEN Get(Obj(Entries(Get(data, c))), f)
  ELSE Undefined

ComponentNames(data) ==
  {data.kv[i].k : i \in 1..Len(data.kv)} \ PreservedMetadata

FieldNames(data) ==
  UNION { {e.k : e \in Range(Entries(Get(data, c)))} :
            c \in ComponentNames(data) }

\* C13: for non-null base and localized, mergeCmsWithLocalization returns
\* an object whose clientId, entrypoint, name and l10nId are those of base,
\* and for every other component c and field f, merged[c][f] is
\* localized[c][f] when localized[c] is an object and localized[c][f] is a
\* string, and base[c][f] otherwise.
C13_MergeOverlay ==
  (/\ fn = "mergeCmsWithLocalization"
   /\ args[1] # Null
   /\ args[2] # Null) =>
    /\ ret.t = "object"
    /\ \A k \in PreservedMetadata : Get(ret, k) = Get(args[1], k)
    /\ \A c \in ComponentNames(args[1]) \cup ComponentNames(args[2]) :
         \A f \in FieldNames(args[1]) \cup FieldNames(args[2]) :
           FieldOf(ret, c, f) =
             IF /\ Get(args[2], c).t \in {"object", "array"}
                /\ FieldOf(args[2], c, f).t = "string"
             THEN FieldOf(args[2], c, f)
             ELSE FieldOf(args[1], c, f)

\* The entries a file given to convertFtlToStrapiFormat was written from.
EntriesOf(file) ==
  CHOOSE entries \in GivenEntryLists : FileOf(entries) = file

\* The values found in the components of a result of
\* convertFtlToStrapiFormat.
AssignedValues(result) ==
  UNION { {e.v.s : e \in Range(Get(result, c).kv)} :
            c \in ComponentNames(result) }

\* No value needs an escape, and no two entries have the same value or the
\* same field of the same l10nId.
PlainAndDistinct(entries) ==
  /\ \A i \in 1..Len(entries) : "\"" \notin Range(entries[i].value)
  /\ \A i, j \in 1..Len(entries) :
       i # j => /\ entries[i].value # entries[j].value
                /\ <<entries[i].l10nId, entries[i].fieldPath>> #
                     <<entries[j].l10nId, entries[j].fieldPath>>

\* C14: slice isolation.  For a file written from entries of several
\* l10nIds, which may contain dashes or be dash-prefixes of one another,
\* convertFtlToStrapiFormat(L1, file, base) assigns the values of all the
\* lines written for L1 and of no line written for another l10nId.
C14_SliceIsolation ==
  (/\ fn = "convertFtlToStrapiFormat"
   /\ PlainAndDistinct(EntriesOf(args[2]))) =>
    AssignedValues(ret) =
      {e.value : e \in {x \in Range(EntriesOf(args[2])) :
                          x.l10nId = args[1]}}

\* The lines of the file are all written for the target l10nId, which has
\* no dash, and for different fields.
OwnLines(l10nId, entries) ==
  /\ "-" \notin Range(l10nId)
  /\ \A i \in 1..Len(entries) : entries[i].l10nId = l10nId
  /\ \A i, j \in 1..Len(entries) :
       i # j => entries[i].fieldPath # entries[j].fieldPath

\* result[component][field] for a field path component.field
AtPath(result, fieldPath) ==
  FieldOf(result, Split(fieldPath, ".")[1], Split(fieldPath, ".")[2])

\* C16: convertFtlToStrapiFormat accepts a data line whose quoted value
\* contains the escapes \", \n or \r and stores the value with the escapes
\* undone; a line with an escaped quote in its value is not skipped.
C16_EscapedValuesStored ==
  (/\ fn = "convertFtlToStrapiFormat"
   /\ OwnLines(args[1], EntriesOf(args[2]))) =>
    \A e \in Range(EntriesOf(args[2])) :
      AtPath(ret, e.fieldPath) = Str(e.value)

\* C17: parseFtlIdToFieldPath returns null for an identifier of fewer than
\* 4 dash-separated segments, and otherwise the segments between the first
\* and the last joined with '.'; for a dash-free l10nId and a field path of
\* at least two dash-free segments, it returns the path the identifier was
\* generated from.
C17_ParseInvertsGenerate ==
  fn = "parseFtlIdToFieldPath" =>
    LET segments == Split(args[1], "-")
    IN /\ Len(segments) < 4 => ~ret.ok
       /\ Len(segments) >= 4 =>
            /\ ret.ok
            /\ Split(ret.path, ".") =
                 [i \in 1..(Len(segments) - 2) |-> segments[i + 1]]
       /\ \A l10nId \in TargetL10nIds, fieldPath \in GivenPaths,
             value \in {V_Hi, V_Yes} :
            (/\ "-" \notin Range(l10nId)
             /\ "-" \notin Range(fieldPath)
             /\ Len(Split(fieldPath, ".")) >= 2
             /\ args[1] = generateFtlIdWithL10nId(l10nId, fieldPath, value))
            => ret = [ok |-> TRUE, path |-> fieldPath]

\* The identifier generated for signin and page.headline.text has been
\* parsed back to page.headline.text.
C17_Witness ==
  /\ fn = "parseFtlIdToFieldPath"
  /\ args[1] = generateFtlIdWithL10nId(L_signin, P_pageHeadlineText, V_Hi)
  /\ ret.path = P_pageHeadlineText

ConfigurationErrors ==
  {"GitHub token is required for Strapi webhook",
   "GitHub owner and repo are required for Strapi webhook"}

\* C22: validateGitHubConfig rejects with a configuration error and issues
\* no remote call when the token, the owner or the repo is missing; with
\* all three present it issues the repository-access call once, and when
\* that call fails it rethrows its error without another call.
C22_ValidateFailsFast ==
  fn = "validateGitHubConfig" =>
    IF \E key \in {"token", "owner", "repo"} : ~Truthy(args[1][key])
    THEN ret.thrown \in ConfigurationErrors /\ ret.calls = <<>>
    ELSE /\ ret.calls = <<"repos.get">>
         /\ ret.thrown = IF args[2] = "ok" THEN "" ELSE args[2]

\* A configuration without a repo was rejected, the token and the owner
\* being present.
C22_Witness ==
  /\ fn = "validateGitHubConfig"
  /\ Truthy(args[1].token) /\ Truthy(args[1].owner)
  /\ args[1].repo = Undefined
  /\ ret.thrown = "GitHub owner and repo are required for Strapi webhook"

\* C25: mergeCmsWithLocalization leaves its baseData argument unchanged:
\* after the call, baseData and the component objects in it hold the fields
\* and values they held before, whatever the localized data.
C25_MergeLeavesBaseUnchanged ==
  fn = "mergeCmsWithLocalization" => after[1] = args[1]


(***************************************************************************)
(* Properties of the account cache                                         *)
(***************************************************************************)

\* The storage key of the current account, if a current uid is stored.
CurrentKeys == IF Truthy(currentAccountUid) THEN {currentAccountUid.s} ELSE {}

\* C26: when clearSignedInAccountUid() returns, in a state that setAccount,
\* setCurrentAccount, removeAccount and unsetCurrentAccount reach from empty
\* storage, no current account uid is stored, the account that was current
\* is not among the stored accounts, and every other stored account is
\* stored as it was.
C26_ClearRemovesCurrentAccount ==
  [][(ClearSignedInAccountUid /\ storedAtStart = NoAccounts) =>
       /\ currentAccountUid' = Undefined
       /\ \A x \in CurrentKeys : x \notin DOMAIN accounts'
       /\ \A x \in DOMAIN accounts \ CurrentKeys :
            x \in DOMAIN accounts' /\ accounts'[x] = accounts[x]]_vars


NonEmptyString(v) == v.t = "string" /\ v.s # <<>>

\* A stored account that has a non-empty string uid and email and is stored
\* under its own uid.
WellStored(accts, x) ==
  /\ NonEmptyString(accts[x].uid)
  /\ NonEmptyString(accts[x].email)
  /\ accts[x].uid.s = x

\* C27: when purgeInvalidAccounts() returns, every account in local storage
\* has a non-empty string uid and email and is stored under its uid, every
\* account that was so before the call is stored as it was, and the call
\* raised no error, whatever local storage held.
C27_PurgeLeavesOnlyValidAccounts ==
  [][PurgeInvalidAccounts =>
       /\ cacheThrown' = ""
       /\ \A x \in DOMAIN accounts' : WellStored(accounts', x)
       /\ \A x \in DOMAIN accounts :
            WellStored(accounts, x) =>
              x \in DOMAIN accounts' /\ accounts'[x] = accounts[x]]_vars


\* C28: starting from empty storage, whatever setAccount, setCurrentAccount,
\* removeAccount, unsetCurrentAccount and clearSignedInAccountUid did, every
\* stored account is stored under its own uid and has a non-empty string uid
\* and a non-empty string email; and a setAccount or setCurrentAccount that
\* threw InvalidCachedAccountState left the stored accounts and the current
\* account uid as they were.
C28_StoredAccountsAreValid ==
  /\ [](storedAtStart = NoAccounts =>
          \A x \in DOMAIN accounts : WellStored(accounts, x))
  /\ [][(/\ storedAtStart = NoAccounts
         /\ SetAccount \/ SetCurrentAccount
         /\ cacheThrown' = "InvalidCachedAccountState") =>
          UNCHANGED <<accounts, currentAccountUid>>]_vars

\* Both cases have happened: an account is stored, and a call with an
\* account without email has just thrown.
C28_Witness ==
  /\ storedAtStart = NoAccounts
  /\ U_1 \in DOMAIN accounts
  /\ currentAccountUid = Str(U_1)
  /\ cacheOp = "setCurrentAccount"
  /\ cacheThrown = "InvalidCachedAccountState"


\* C29: whenever a current account uid is stored, an account is stored under
\* that uid, whatever setAccount, setCurrentAccount, removeAccount,
\* unsetCurrentAccount, clearSignedInAccountUid and Session.destroy did; so
\* Session.isDestroyed is true only when no current account uid is stored.
C29_CurrentUidNamesStoredAccount ==
  /\ Truthy(currentAccountUid) => currentAccountUid.s \in DOMAIN accounts
  /\ isDestroyed => ~Truthy(currentAccountUid)


(***************************************************************************)
(* Properties of the subscription page                                     *)
(***************************************************************************)

\* A started resubscribe() sets pendingResubscribe.
StartSetsPending == [][Resubscribe => pendingResubscribe']_vars

\* pendingResubscribe, once true, is false again later.
PendingIsCleared == pendingResubscribe ~> ~pendingResubscribe

\* The success dialog goes from closed to open only in a step of a call
\* whose action gave an ok result, with the resubscribe dialog closed.
SuccessOpensAfterOk ==
  [][(~openResubscribeSuccessDialog /\ openResubscribeSuccessDialog') =>
       actionResult = "ok" /\ ~openResubscribeDialog']_vars

NeverBothOpen == [](~(openResubscribeDialog /\ openResubscribeSuccessDialog))

\* The step that takes a result that is not ok sets the error flag and
\* leaves the success dialog closed.
NotOkSetsError ==
  [][(ActionResolves /\ actionResult' = "notOk") =>
       showResubscribeActionError' /\ ~openResubscribeSuccessDialog']_vars

\* C30: every started resubscribe() sets pendingResubscribe to true, and
\* pendingResubscribe is eventually false again whatever the outcome of the
\* action; the success dialog opens only after an ok result and with the
\* resubscribe dialog closed, the two dialogs are never open together; and
\* after a result that is not ok the error flag is set and the success
\* dialog is closed.
C30_ResubscribeFlow ==
  /\ StartSetsPending
  /\ PendingIsCleared
  /\ SuccessOpensAfterOk
  /\ NeverBothOpen
  /\ NotOkSetsError

====
